---- MODULE Spec2Model ----
(***************************************************************************)
(* fftGen: generator of unrolled radix-2 FFT / IFFT code (src/fftGen.c),   *)
(* together with the harness that runs the generated code and the textbook *)
(* reference transform it is compared with (src/test/fftTest.c).           *)
(*                                                                         *)
(* The generator is modelled step by step (one planner iteration, one      *)
(* fill, one swap record, one butterfly per action).  The generated text   *)
(* is kept as a sequence of statement records; the harness interprets it   *)
(* over exact arithmetic in Z[1/2][zeta], zeta a primitive L-th root of    *)
(* unity, so that every sine / cosine the generator prints is an exact     *)
(* number and equality of results is decided, not approximated.  A printed *)
(* literal stands for the sine / cosine it was printed from (the twiddle   *)
(* index); the rounding of "%21.14e" and of double arithmetic is outside   *)
(* the model, which is why the harness compares with a tolerance and the   *)
(* model compares exactly.                                                 *)
(***************************************************************************)
EXTENDS Integers, Sequences, FiniteSets, TLC

\* Largest log2(n) for which code is generated.
MaxLogN == 4
\* Largest log2(n) for which the harness executes the generated code.
MaxLogRun == 4
\* Largest log2(n) of a valid n given to main.
MaxLogMain == 2
\* Largest log2(n) for which the size of the generated code is counted.
MaxLogSize == 6

RECURSIVE Pow2(_)
Pow2(p) == IF p <= 0 THEN 1 ELSE 2 * Pow2(p - 1)

Max(a, b) == IF a >= b THEN a ELSE b

\* The element of a one-element set.  Sequential composition "first a, then
\* F on its result" is written  The({F(r) : r \in {a}}),  which has a
\* evaluated before F is entered.
The(S) == CHOOSE x \in S : TRUE

(***************************************************************************)
(* Exact numbers.  A twiddle value is cos(2*pi*W/L) for an index W in      *)
(* 0..L-1, L = TwL(n).  A number is (sum_t c[t] * zeta^(t-1)) / 2^e with   *)
(* t in 1..L/2; 1, zeta, .., zeta^(L/2-1) is a basis of Q(zeta) over Q, so *)
(* the normalised representation of a number is unique.                    *)
(***************************************************************************)

\* Order of the root of unity needed for the sines and cosines of size n.
TwL(n) == Max(n, 4)

\* The function f on 1..d as a tuple.
Vec(f) == f \o << >>

\* The integer v as a number of dimension d.
RInt(d, v) == [c |-> Vec([t \in 1..d |-> IF t = 1 THEN v ELSE 0]), e |-> 0]

RECURSIVE RNorm(_)
RNorm(x) ==
    IF x.e > 0 /\ \A t \in DOMAIN x.c : x.c[t] % 2 = 0
    THEN RNorm([c |-> Vec([t \in DOMAIN x.c |-> x.c[t] \div 2]), e |-> x.e - 1])
    ELSE x

RNeg(x) == [c |-> Vec([t \in DOMAIN x.c |-> 0 - x.c[t]]), e |-> x.e]

RAdd(x, y) ==
    LET e == Max(x.e, y.e)
    IN  RNorm([c |-> Vec([t \in DOMAIN x.c |->
                            x.c[t] * Pow2(e - x.e) + y.c[t] * Pow2(e - y.e)]),
               e |-> e])

RSub(x, y) == RAdd(x, RNeg(y))

\* x / 2^p
RHalve(x, p) == RNorm([c |-> x.c, e |-> x.e + p])

\* Coefficient vector of c * zeta^j, 0 <= j < 2d, with zeta^d = -1.
ZetaShift(c, j) ==
    LET d == Len(c)
    IN  Vec([t \in 1..d |->
                LET s == ((t - 1) - j) % d
                    q == (s + j - (t - 1)) \div d
                IN  IF q % 2 = 0 THEN c[s + 1] ELSE 0 - c[s + 1]])

\* x * cos(2*pi*W/L),  cos = (zeta^W + zeta^-W) / 2,  L = 2 * dimension.
RMulCos(x, W) ==
    LET d  == Len(x.c)
        a  == ZetaShift(x.c, W % (2 * d))
        b  == ZetaShift(x.c, (2 * d - (W % (2 * d))) % (2 * d))
    IN  RNorm([c |-> Vec([t \in 1..d |-> a[t] + b[t]]), e |-> x.e + 1])

(***************************************************************************)
(* The generated text.  A line is  lhs op rhs;  with rhs a sequence of     *)
(* terms  [sign] [lit*] var.  sign is "", "+" or "-" as printed, lit a     *)
(* twiddle index (NoLit when no literal is printed), var an array element  *)
(* or a temporary.  "xi[3] = 0.0;" has the single term 0.0; the blank line *)
(* that ends the permutation phase is a line of its own.                   *)
(***************************************************************************)

NoLit == 0 - 1

Var(a, i) == [a |-> a, i |-> i]
TR == Var("tr", 0)
TI == Var("ti", 0)
XR(i) == Var("xr", i)
XI(i) == Var("xi", i)
ZeroLit == Var("0.0", 0)

Term(sign, lit, v) == [sign |-> sign, lit |-> lit, v |-> v]
Line(lhs, op, rhs) == [lhs |-> lhs, op |-> op, rhs |-> rhs]
BlankLine == Line(Var("", 0), "", << >>)

(***************************************************************************)
(* Execution of the generated text by the C compiler's semantics: the      *)
(* harness includes the text in  fft(xr, xi) { FFT_TYPE tr, ti; ... }.     *)
(* A memory is [xr, xi, tr, ti].                                           *)
(***************************************************************************)

ReadVar(mem, v) ==
    CASE v.a = "xr" -> mem.xr[v.i]
      [] v.a = "xi" -> mem.xi[v.i]
      [] v.a = "tr" -> mem.tr
      [] v.a = "ti" -> mem.ti
      [] OTHER      -> RInt(Len(mem.tr.c), 0)

WriteVar(mem, dst, x) ==
    CASE dst.a = "xr" -> [mem EXCEPT !.xr[dst.i] = x]
      [] dst.a = "xi" -> [mem EXCEPT !.xi[dst.i] = x]
      [] dst.a = "tr" -> [mem EXCEPT !.tr = x]
      [] dst.a = "ti" -> [mem EXCEPT !.ti = x]
      [] OTHER        -> mem

TermVal(mem, t) ==
    LET x == ReadVar(mem, t.v)
        y == IF t.lit = NoLit THEN x ELSE RMulCos(x, t.lit)
    IN  IF t.sign = "-" THEN RNeg(y) ELSE y

RECURSIVE RhsVal(_, _, _)
RhsVal(mem, rhs, p) ==
    IF p = Len(rhs) THEN TermVal(mem, rhs[p])
    ELSE RAdd(TermVal(mem, rhs[p]), RhsVal(mem, rhs, p + 1))

ExecLine(mem, ln) ==
    IF ln.op = "" THEN mem
    ELSE LET v == RhsVal(mem, ln.rhs, 1)
         IN  WriteVar(mem, ln.lhs,
                      IF ln.op = "+=" THEN RAdd(ReadVar(mem, ln.lhs), v) ELSE v)

\* Lines lo..hi of the text, in order.
RECURSIVE ExecRange(_, _, _, _)
ExecRange(mem, code, lo, hi) ==
    IF lo > hi THEN mem
    ELSE IF lo = hi THEN ExecLine(mem, code[lo])
    ELSE LET mid == (lo + hi) \div 2
         IN  The({ExecRange(r, code, mid + 1, hi) :
                    r \in {ExecRange(mem, code, lo, mid)}})

ExecCode(mem, code) == ExecRange(mem, code, 1, Len(code))

(***************************************************************************)
(* Twiddle values  wr = cos(a), wi = sin(a), a = -pi*m/k  (wi negated for  *)
(* the inverse transform), as indices W of cos(2*pi*W/L), and the          *)
(* comparisons the generator makes on them.  With eps, epsOne, epsMOne as  *)
(* the generator computes them, a sine or cosine of a multiple of 2*pi/n   *)
(* is within eps of 0 exactly when it is 0, and beyond epsOne / epsMOne    *)
(* exactly when it is 1 / -1.                                              *)
(***************************************************************************)

TwWr(n, k, m) == (m * (TwL(n) \div (2 * k))) % TwL(n)

\* Faulty variant: the sign of the sine does not follow inv.
TwWi_Forward(n, k, m, inv) == (TwWr(n, k, m) + (TwL(n) \div 4)) % TwL(n)

TwWi(n, k, m, inv) ==
    LET L == TwL(n)
    IN  IF inv THEN (TwWr(n, k, m) + 3 * (L \div 4)) % L
        ELSE (TwWr(n, k, m) + (L \div 4)) % L

\* -w
TwNeg(n, W) == (W + TwL(n) \div 2) % TwL(n)

\* fabs(w) > eps
TwNonZero(n, W) == W % (TwL(n) \div 2) # TwL(n) \div 4
\* w < epsOne
TwBelowOne(n, W) == W # 0
\* w > epsMOne
TwAboveMOne(n, W) == W # TwL(n) \div 2
\* w >= 0.0
TwNonNeg(n, W) == W <= TwL(n) \div 4 \/ W >= 3 * (TwL(n) \div 4)

(***************************************************************************)
(* fftRef of the harness: the textbook transform on an array of COMPLEX.   *)
(***************************************************************************)

\* do { k /= 2; } while (mr+k > nn);
RECURSIVE RefHalveK(_, _, _)
RefHalveK(k, mr, nn) ==
    IF mr + (k \div 2) > nn THEN RefHalveK(k \div 2, mr, nn) ELSE k \div 2

\* a = M_PI*(-m)/k;  wr = cos(a);  wi = sin(a);
RefWr(n, k, m) == (m * (TwL(n) \div (2 * k))) % TwL(n)
RefWi(n, k, m) == (RefWr(n, k, m) + TwL(n) \div 4) % TwL(n)

\* One iteration of  for (m=1; m<=nn; ++m)  on st = [x, mr].
RefPermIter(st, n, m) ==
    LET k   == RefHalveK(n, st.mr, n - 1)
        mr2 == (st.mr % k) + k
    IN  [x  |-> IF mr2 > m
                THEN [st.x EXCEPT ![m] = st.x[mr2], ![mr2] = st.x[m]]
                ELSE st.x,
         mr |-> mr2]

\* Iterations m = lo..hi, in order.
RECURSIVE RefPermRange(_, _, _, _)
RefPermRange(st, n, lo, hi) ==
    IF lo > hi THEN st
    ELSE IF lo = hi THEN RefPermIter(st, n, lo)
    ELSE LET mid == (lo + hi) \div 2
         IN  The({RefPermRange(r, n, mid + 1, hi) :
                    r \in {RefPermRange(st, n, lo, mid)}})

RefPerm(x, n) == RefPermRange([x |-> x, mr |-> 0], n, 1, n - 1).x

RefButterfly(x, n, k, m, ii) ==
    LET jj == ii + k
        wr == RefWr(n, k, m)
        wi == RefWi(n, k, m)
        tr == RSub(RMulCos(x[jj].r, wr), RMulCos(x[jj].i, wi))
        ti == RAdd(RMulCos(x[jj].i, wr), RMulCos(x[jj].r, wi))
    IN  [x EXCEPT ![jj] = [r |-> RSub(x[ii].r, tr), i |-> RSub(x[ii].i, ti)],
                  ![ii] = [r |-> RAdd(x[ii].r, tr), i |-> RAdd(x[ii].i, ti)]]

\* Iterations i = lo..hi of  for (i=m; i<=nm; ++i);  ii = m + (i-m)*istep.
RECURSIVE RefInner(_, _, _, _, _, _)
RefInner(x, n, k, m, lo, hi) ==
    IF lo > hi THEN x
    ELSE IF lo = hi THEN RefButterfly(x, n, k, m, m + (lo - m) * (2 * k))
    ELSE LET mid == (lo + hi) \div 2
         IN  The({RefInner(r, n, k, m, mid + 1, hi) :
                    r \in {RefInner(x, n, k, m, lo, mid)}})

\* Iterations m = lo..hi of  for (m=0; m<k; ++m).
RECURSIVE RefGroup(_, _, _, _, _)
RefGroup(x, n, k, lo, hi) ==
    IF lo > hi THEN x
    ELSE IF lo = hi
    THEN RefInner(x, n, k, lo, lo, ((n - 1) - lo) \div (2 * k) + lo)
    ELSE LET mid == (lo + hi) \div 2
         IN  The({RefGroup(r, n, k, mid + 1, hi) :
                    r \in {RefGroup(x, n, k, lo, mid)}})

\* for (k=1; k<n; k=istep)
RECURSIVE RefStage(_, _, _)
RefStage(x, n, k) ==
    IF k >= n THEN x
    ELSE The({RefStage(r, n, 2 * k) : r \in {RefGroup(x, n, k, 0, k - 1)}})

fftRef(x, n) == RefStage(RefPerm(x, n), n, 1)

(***************************************************************************)
(* fftGen, part 1: the binary inversion planner.  swap[] has n entries,    *)
(* of which the first nSwap are in use.                                    *)
(***************************************************************************)

RECURSIVE HalveK(_, _, _)

\* Faulty variant: k is halved once.
HalveK_Once(k, mr, nn) == k \div 2

\* do { k /= 2; } while (mr+k > nn);
HalveK(k, mr, nn) ==
    IF mr + (k \div 2) > nn THEN HalveK(k \div 2, mr, nn) ELSE k \div 2

\* Faulty variant: the remainder is not taken.
NextMr_NoRemainder(n, mr) == mr + HalveK(n, mr, n - 1)

\* mr = mr%k + k;
NextMr(n, mr) == LET k == HalveK(n, mr, n - 1) IN (mr % k) + k

\* Faulty variant: the two source indices are exchanged.
SwapRec_Exchanged(m, mr, m_new, mr_new, symmIn) ==
    [m |-> m, mr |-> mr, m_new |-> mr_new, mr_new |-> m_new, symmIn |-> symmIn]

SwapRec(m, mr, m_new, mr_new, symmIn) ==
    [m |-> m, mr |-> mr, m_new |-> m_new, mr_new |-> mr_new, symmIn |-> symmIn]

\* for (i=start; i>0; --i) { if (t == swap[i].m || t == swap[i].mr) break; }
RECURSIVE BackScan(_, _, _)
BackScan(sw, i, t) ==
    IF i > 0
    THEN IF t = sw[i].m \/ t = sw[i].mr THEN i ELSE BackScan(sw, i - 1, t)
    ELSE i

\* Use the lowest of both and assign it to i_mr
LowestOf(i_m, i_mr) ==
    IF i_mr > 0 /\ i_m > 0 THEN (IF i_mr > i_m THEN i_m ELSE i_mr)
    ELSE IF i_m > 0 THEN i_m ELSE i_mr

\* Faulty variant: the record at i_mr is overwritten, nothing is shifted.
InsertAt_Overwrite(sw, nSwap, i_mr, rec) == [sw EXCEPT ![i_mr] = rec]

\* Shift swap[i_mr .. nSwap-1] up by one and put rec at i_mr.
InsertAt(sw, nSwap, i_mr, rec) ==
    LET shifted == [j \in DOMAIN sw |->
                        IF j > i_mr /\ j <= nSwap THEN sw[j - 1] ELSE sw[j]]
    IN  [shifted EXCEPT ![i_mr] = rec]

\* Faulty variant: the record is never moved forward.
InsertPos_Append(n, sw, nSwap, m, mr, m_new, mr_new) == 0

\* Position at which the record (m, mr) goes: i_mr of the code, > 0 when
\* the record is inserted, otherwise it stays at swap[nSwap].
InsertPos(n, sw, nSwap, m, mr, m_new, mr_new) ==
    LET i_m  == IF m > n \div 2 THEN BackScan(sw, nSwap - 1, m_new) ELSE 0
        i_mr == IF mr > n \div 2 THEN BackScan(sw, nSwap - 1, mr_new) ELSE 0
    IN  LowestOf(i_m, i_mr)

\* Faulty variant: an unsuccessful search inserts at position 0.
PlanRecord_InsertAtZero(n, symmIn, swap, nSwap, m, mr) ==
    IF ~symmIn
    THEN [swap EXCEPT ![nSwap].m = m, ![nSwap].mr = mr, ![nSwap].symmIn = 0]
    ELSE IF m <= n \div 2 /\ mr <= n \div 2
    THEN [swap EXCEPT ![nSwap].m = m, ![nSwap].mr = mr, ![nSwap].symmIn = 0]
    ELSE LET m_new  == IF m > n \div 2 THEN n - m ELSE m
             mr_new == IF mr > n \div 2 THEN n - mr ELSE mr
             rec    == SwapRec(m, mr, m_new, mr_new, 1)
             sw     == [swap EXCEPT ![nSwap] = rec]
             i_mr   == InsertPos(n, sw, nSwap, m, mr, m_new, mr_new)
         IN  InsertAt(sw, nSwap, i_mr, rec)

\* The body of  if (mr > m) { ... ++nSwap; }  for one m.
PlanRecord(n, symmIn, swap, nSwap, m, mr) ==
    IF ~symmIn
    THEN [swap EXCEPT ![nSwap].m = m, ![nSwap].mr = mr, ![nSwap].symmIn = 0]
    ELSE IF m <= n \div 2 /\ mr <= n \div 2
    THEN [swap EXCEPT ![nSwap].m = m, ![nSwap].mr = mr, ![nSwap].symmIn = 0]
    ELSE LET m_new  == IF m > n \div 2 THEN n - m ELSE m
             mr_new == IF mr > n \div 2 THEN n - mr ELSE mr
             rec    == SwapRec(m, mr, m_new, mr_new, 1)
             sw     == [swap EXCEPT ![nSwap] = rec]
             i_mr   == InsertPos(n, sw, nSwap, m, mr, m_new, mr_new)
         IN  IF i_mr > 0 THEN InsertAt(sw, nSwap, i_mr, rec) ELSE sw

\* One iteration of  for (nSwap=0,m=1; m<=nn; ++m).
PlanIter(n, symmIn, st, m) ==
    LET mr == NextMr(n, st.mr)
    IN  IF mr > m
        THEN [mr |-> mr, nSwap |-> st.nSwap + 1,
              swap |-> PlanRecord(n, symmIn, st.swap, st.nSwap, m, mr)]
        ELSE [mr |-> mr, nSwap |-> st.nSwap, swap |-> st.swap]

\* swap[] after malloc and the zeroing loop.
SwapInit(n) == [j \in 0..(n - 1) |-> SwapRec(0, 0, 0, 0, 0)]

\* Iterations m = lo..hi, in order.
RECURSIVE PlanRange(_, _, _, _, _)
PlanRange(n, symmIn, st, lo, hi) ==
    IF lo > hi THEN st
    ELSE IF lo = hi THEN PlanIter(n, symmIn, st, lo)
    ELSE LET mid == (lo + hi) \div 2
         IN  The({PlanRange(n, symmIn, r, mid + 1, hi) :
                    r \in {PlanRange(n, symmIn, st, lo, mid)}})

\* The planner run to its end.
Plan(n, symmIn) ==
    PlanRange(n, symmIn, [mr |-> 0, nSwap |-> 0, swap |-> SwapInit(n)], 1, n - 1)

(***************************************************************************)
(* fftGen, part 2: Hermitian fills and the permutation emitter.            *)
(***************************************************************************)

\* Faulty variant: every index counts as listed, no fill is printed.
NotListed_Never(swap, nSwap, i) == FALSE

\* for (ii=nSwap-1; ii>=0; --ii) if (swap[ii].m==i || swap[ii].mr==i) break;
\* if (ii < 0) ...
NotListed(swap, nSwap, i) ==
    \A j \in 0..(nSwap - 1) : swap[j].m # i /\ swap[j].mr # i

\* Faulty variant: the fill copies xi[n-i] without negating it.
FillLines_NoConj(n, swap, nSwap, i) ==
    IF NotListed(swap, nSwap, i)
    THEN << Line(XR(i), "=", << Term("", NoLit, XR(n - i)) >>),
            Line(XI(i), "=", << Term("", NoLit, XI(n - i)) >>) >>
    ELSE << >>

\* The lines printed for index i of  for (i=n/2+1; i<n; ++i).
FillLines(n, swap, nSwap, i) ==
    IF NotListed(swap, nSwap, i)
    THEN << Line(XR(i), "=", << Term("", NoLit, XR(n - i)) >>),
            Line(XI(i), "=", << Term("-", NoLit, XI(n - i)) >>) >>
    ELSE << >>

\* Faulty variant: the imaginary parts are not exchanged.
PlainSwapLines_RealOnly(realIn, r) ==
    << Line(TR, "=", << Term("", NoLit, XR(r.m)) >>),
       Line(XR(r.m), "=", << Term("", NoLit, XR(r.mr)) >>),
       Line(XR(r.mr), "=", << Term("", NoLit, TR) >>) >>

\* Swapping according to standard binary inversion algorithm
PlainSwapLines(realIn, r) ==
    << Line(TR, "=", << Term("", NoLit, XR(r.m)) >>),
       Line(XR(r.m), "=", << Term("", NoLit, XR(r.mr)) >>),
       Line(XR(r.mr), "=", << Term("", NoLit, TR) >>) >>
    \o (IF ~realIn
        THEN << Line(TI, "=", << Term("", NoLit, XI(r.m)) >>),
                Line(XI(r.m), "=", << Term("", NoLit, XI(r.mr)) >>),
                Line(XI(r.mr), "=", << Term("", NoLit, TI) >>) >>
        ELSE << >>)

\* Faulty variant: the copy is never conjugated.
ConjSign_Never(n, idx) == ""

\* Sign of the copy of an imaginary part whose original index is idx.
ConjSign(n, idx) == IF idx <= n \div 2 THEN "" ELSE "-"

\* Use the conjugate complex value of (xr[n-mr],xi[n-mr])
SymmSwapLines(n, realIn, r) ==
    << Line(XR(r.mr), "=", << Term("", NoLit, XR(r.m_new)) >>),
       Line(XR(r.m), "=", << Term("", NoLit, XR(r.mr_new)) >>) >>
    \o (IF ~realIn
        THEN << Line(XI(r.mr), "=", << Term(ConjSign(n, r.m), NoLit, XI(r.m_new)) >>),
                Line(XI(r.m), "=", << Term(ConjSign(n, r.mr), NoLit, XI(r.mr_new)) >>) >>
        ELSE << >>)

\* The lines printed for record r of  for (k=0; k<nSwap; ++k).
SwapLines(n, realIn, r) ==
    IF r.symmIn = 0 THEN PlainSwapLines(realIn, r) ELSE SymmSwapLines(n, realIn, r)

(***************************************************************************)
(* fftGen, part 3: the butterfly emitter.  nzi[i] = 1 when xi[i] may be    *)
(* non-zero.                                                               *)
(***************************************************************************)

\* Faulty variant: every slot starts as non-zero.
NziInit_AllOne(n, realIn) == [j \in 0..(n - 1) |-> 1]

NziInit(n, realIn) == [j \in 0..(n - 1) |-> IF realIn THEN 0 ELSE 1]

\* Part wr*xr[jj] of tr (v = xr[jj]) and, when nzi[jj], part wr*xi[jj] of
\* ti (v = xi[jj]).
FirstTerm(n, wr, v) ==
    IF TwBelowOne(n, wr)
    THEN IF TwAboveMOne(n, wr) THEN Term("", wr, v) ELSE Term("-", NoLit, v)
    ELSE Term("", NoLit, v)

\* Faulty variant: wi*xi[jj] is added to tr.
TrSecondTerm_Added(n, wi, jj, firstOpZero) ==
    Term(IF firstOpZero THEN "" ELSE "+", wi, XI(jj))

\* Part -wi*xi[jj] of tr.
TrSecondTerm(n, wi, jj, firstOpZero) ==
    IF TwBelowOne(n, wi)
    THEN IF TwAboveMOne(n, wi)
         THEN IF ~firstOpZero
              THEN IF TwNonNeg(n, wi) THEN Term("-", wi, XI(jj))
                   ELSE Term("+", TwNeg(n, wi), XI(jj))
              ELSE Term("", TwNeg(n, wi), XI(jj))
         ELSE IF ~firstOpZero THEN Term("+", NoLit, XI(jj))
              ELSE Term("", NoLit, XI(jj))
    ELSE Term("-", NoLit, XI(jj))

\* Faulty variant: the part is always joined with an operator, also when
\* nothing stands in front of it.
TiSecondTerm_Joined(n, wi, jj, firstOpZero) ==
    IF TwBelowOne(n, wi)
    THEN IF TwAboveMOne(n, wi)
         THEN IF TwNonNeg(n, wi) THEN Term("+", wi, XR(jj))
              ELSE Term("-", TwNeg(n, wi), XR(jj))
         ELSE Term("-", NoLit, XR(jj))
    ELSE Term("+", NoLit, XR(jj))

\* Part +wi*xr[jj] of ti.
TiSecondTerm(n, wi, jj, firstOpZero) ==
    IF TwBelowOne(n, wi)
    THEN IF TwAboveMOne(n, wi)
         THEN IF ~firstOpZero
              THEN IF TwNonNeg(n, wi) THEN Term("+", wi, XR(jj))
                   ELSE Term("-", TwNeg(n, wi), XR(jj))
              ELSE Term("", wi, XR(jj))
         ELSE Term("-", NoLit, XR(jj))
    ELSE Term("", NoLit, XR(jj))

\* Faulty variant: nzi[jj] is not consulted.
TrTerms_Untracked(n, wr, wi, jj, nzi) ==
    LET firstOpZero == ~TwNonZero(n, wr)
        first == IF firstOpZero THEN << >> ELSE << FirstTerm(n, wr, XR(jj)) >>
    IN  IF TwNonZero(n, wi)
        THEN first \o << TrSecondTerm(n, wi, jj, firstOpZero) >>
        ELSE first

\* Terms of  tr = wr*xr[jj] - wi*xi[jj];  empty when trz.
TrTerms(n, wr, wi, jj, nzi) ==
    LET firstOpZero == ~TwNonZero(n, wr)
        first == IF firstOpZero THEN << >> ELSE << FirstTerm(n, wr, XR(jj)) >>
    IN  IF TwNonZero(n, wi) /\ nzi[jj] = 1
        THEN first \o << TrSecondTerm(n, wi, jj, firstOpZero) >>
        ELSE first

\* Terms of  ti = wr*xi[jj] + wi*xr[jj];  empty when tiz.
TiTerms(n, wr, wi, jj, nzi) ==
    LET firstOpZero == ~(TwNonZero(n, wr) /\ nzi[jj] = 1)
        first == IF firstOpZero THEN << >> ELSE << FirstTerm(n, wr, XI(jj)) >>
    IN  IF TwNonZero(n, wi)
        THEN first \o << TiSecondTerm(n, wi, jj, firstOpZero) >>
        ELSE first

\* Faulty variant: index n/2 is suppressed as well.
WritesJJ_NoMiddle(n, symmOut, lastKCycle, jj) == ~(symmOut /\ lastKCycle = 1)

\* if ( ! (symmOut && lastKCycle && jj!=n/2))
WritesJJ(n, symmOut, lastKCycle, jj) ==
    ~(symmOut /\ lastKCycle = 1 /\ jj # n \div 2)

\* Faulty variant: real_out is ignored.
WithImag_Always(realOut, lastKCycle) == TRUE

\* if ( ! (realOut && lastKCycle))
WithImag(realOut, lastKCycle) == ~(realOut /\ lastKCycle = 1)

\* Faulty variant: tr is added.
XrJJLines_Added(trz, ii, jj) ==
    IF ~trz
    THEN << Line(XR(jj), "=", << Term("", NoLit, XR(ii)), Term("+", NoLit, TR) >>) >>
    ELSE << Line(XR(jj), "=", << Term("", NoLit, XR(ii)) >>) >>

\* Implement xr[jj] = xr[ii] - tr;
XrJJLines(trz, ii, jj) ==
    IF ~trz
    THEN << Line(XR(jj), "=", << Term("", NoLit, XR(ii)), Term("-", NoLit, TR) >>) >>
    ELSE << Line(XR(jj), "=", << Term("", NoLit, XR(ii)) >>) >>

\* Faulty variant: with real_in the last stage always clears xi[jj].
XiJJLines_Cleared(realIn, lastKCycle, tiz, ii, jj, nzi) ==
    IF realIn /\ lastKCycle = 1
    THEN << Line(XI(jj), "=", << Term("", NoLit, ZeroLit) >>) >>
    ELSE IF ~tiz
    THEN IF nzi[ii] = 1
         THEN << Line(XI(jj), "=", << Term("", NoLit, XI(ii)), Term("-", NoLit, TI) >>) >>
         ELSE << Line(XI(jj), "=", << Term("-", NoLit, TI) >>) >>
    ELSE IF nzi[ii] = 1
         THEN << Line(XI(jj), "=", << Term("", NoLit, XI(ii)) >>) >>
         ELSE << >>

\* Implement xi[jj] = xi[ii] - ti;
XiJJLines(realIn, lastKCycle, tiz, ii, jj, nzi) ==
    IF ~tiz
    THEN IF nzi[ii] = 1
         THEN << Line(XI(jj), "=", << Term("", NoLit, XI(ii)), Term("-", NoLit, TI) >>) >>
         ELSE << Line(XI(jj), "=", << Term("-", NoLit, TI) >>) >>
    ELSE IF nzi[ii] = 1
         THEN << Line(XI(jj), "=", << Term("", NoLit, XI(ii)) >>) >>
         ELSE IF realIn /\ lastKCycle = 1
              THEN << Line(XI(jj), "=", << Term("", NoLit, ZeroLit) >>) >>
              ELSE << >>

\* Faulty variant: xi[jj] is never marked.
NziAfterJJ_Never(tiz, ii, jj, nzi) == nzi

\* nzi after the xi[jj] part.
NziAfterJJ(tiz, ii, jj, nzi) ==
    IF ~tiz \/ nzi[ii] = 1 THEN [nzi EXCEPT ![jj] = 1] ELSE nzi

\* Faulty variant: xr[ii] is overwritten with tr.
XrIILines_Store(trz, ii) ==
    IF ~trz THEN << Line(XR(ii), "=", << Term("", NoLit, TR) >>) >> ELSE << >>

\* Implement xr[ii] += tr;
XrIILines(trz, ii) ==
    IF ~trz THEN << Line(XR(ii), "+=", << Term("", NoLit, TR) >>) >> ELSE << >>

\* Faulty variant: xi[ii] is never set to 0.0.
XiIILines_NoZero(realIn, lastKCycle, tiz, ii, nzi) ==
    IF ~tiz
    THEN IF nzi[ii] = 1
         THEN << Line(XI(ii), "+=", << Term("", NoLit, TI) >>) >>
         ELSE << Line(XI(ii), "=", << Term("", NoLit, TI) >>) >>
    ELSE << >>

\* Implement xi[ii] += ti;
XiIILines(realIn, lastKCycle, tiz, ii, nzi) ==
    IF ~tiz
    THEN IF nzi[ii] = 1
         THEN << Line(XI(ii), "+=", << Term("", NoLit, TI) >>) >>
         ELSE << Line(XI(ii), "=", << Term("", NoLit, TI) >>) >>
    ELSE IF realIn /\ lastKCycle = 1
         THEN << Line(XI(ii), "=", << Term("", NoLit, ZeroLit) >>) >>
         ELSE << >>

\* Faulty variant: xi[ii] is never marked.
NziAfterII_Never(tiz, ii, nzi) == nzi

\* nzi after the xi[ii] part.
NziAfterII(tiz, ii, nzi) ==
    IF ~tiz /\ nzi[ii] # 1 THEN [nzi EXCEPT ![ii] = 1] ELSE nzi

\* Faulty variant: the temporaries are assigned after their use.
Butterfly_TempsLast(n, inv, realIn, realOut, symmOut, lastKCycle, k, m, ii, nzi) ==
    LET jj   == ii + k
        wr   == TwWr(n, k, m)
        wi   == TwWi(n, k, m, inv)
        im   == WithImag(realOut, lastKCycle)
        trT  == TrTerms(n, wr, wi, jj, nzi)
        tiT  == IF im THEN TiTerms(n, wr, wi, jj, nzi) ELSE << >>
        trz  == trT = << >>
        tiz  == im /\ tiT = << >>
        wjj  == WritesJJ(n, symmOut, lastKCycle, jj)
        nzi1 == IF wjj /\ im THEN NziAfterJJ(tiz, ii, jj, nzi) ELSE nzi
        nzi2 == IF im THEN NziAfterII(tiz, ii, nzi1) ELSE nzi1
    IN  [lines |->
            (IF wjj THEN XrJJLines(trz, ii, jj) ELSE << >>)
            \o (IF wjj /\ im
                THEN XiJJLines(realIn, lastKCycle, tiz, ii, jj, nzi) ELSE << >>)
            \o XrIILines(trz, ii)
            \o (IF im THEN XiIILines(realIn, lastKCycle, tiz, ii, nzi1) ELSE << >>)
            \o (IF trz THEN << >> ELSE << Line(TR, "=", trT) >>)
            \o (IF tiT = << >> THEN << >> ELSE << Line(TI, "=", tiT) >>),
         nzi |-> nzi2]

\* The body of the innermost loop for the butterfly (ii, jj = ii+k) of
\* stage k, group m: the lines it prints and nzi afterwards.
Butterfly(n, inv, realIn, realOut, symmOut, lastKCycle, k, m, ii, nzi) ==
    LET jj   == ii + k
        wr   == TwWr(n, k, m)
        wi   == TwWi(n, k, m, inv)
        im   == WithImag(realOut, lastKCycle)
        trT  == TrTerms(n, wr, wi, jj, nzi)
        tiT  == IF im THEN TiTerms(n, wr, wi, jj, nzi) ELSE << >>
        trz  == trT = << >>
        tiz  == im /\ tiT = << >>
        wjj  == WritesJJ(n, symmOut, lastKCycle, jj)
        nzi1 == IF wjj /\ im THEN NziAfterJJ(tiz, ii, jj, nzi) ELSE nzi
        nzi2 == IF im THEN NziAfterII(tiz, ii, nzi1) ELSE nzi1
    IN  [lines |->
            (IF trz THEN << >> ELSE << Line(TR, "=", trT) >>)
            \o (IF tiT = << >> THEN << >> ELSE << Line(TI, "=", tiT) >>)
            \o (IF wjj THEN XrJJLines(trz, ii, jj) ELSE << >>)
            \o (IF wjj /\ im
                THEN XiJJLines(realIn, lastKCycle, tiz, ii, jj, nzi) ELSE << >>)
            \o XrIILines(trz, ii)
            \o (IF im THEN XiIILines(realIn, lastKCycle, tiz, ii, nzi1) ELSE << >>),
         nzi |-> nzi2]

\* Faulty variant: nm is computed from n instead of nn = n-1.
NextPos_FromN(n, k, m, i, ii) ==
    LET istep == 2 * k
        nm    == (n - m) \div istep + m
    IN  IF i + 1 <= nm THEN [k |-> k, m |-> m, i |-> i + 1, ii |-> ii + istep]
        ELSE IF m + 1 < k THEN [k |-> k, m |-> m + 1, i |-> m + 1, ii |-> m + 1]
        ELSE [k |-> istep, m |-> 0, i |-> 0, ii |-> 0]

\* Loop position after the butterfly at (k, m, i, ii): the next butterfly,
\* or k >= n when the stage loop is over.
NextPos(n, k, m, i, ii) ==
    LET istep == 2 * k
        nm    == ((n - 1) - m) \div istep + m
    IN  IF i + 1 <= nm THEN [k |-> k, m |-> m, i |-> i + 1, ii |-> ii + istep]
        ELSE IF m + 1 < k THEN [k |-> k, m |-> m + 1, i |-> m + 1, ii |-> m + 1]
        ELSE [k |-> istep, m |-> 0, i |-> 0, ii |-> 0]

\* Faulty variant: the flag is set one stage early.
StageFlag_Early(n, k, lastKCycle) == IF 4 * k >= n THEN 1 ELSE lastKCycle

\* if (istep==n)  lastKCycle = 1;   on entering stage k
StageFlag(n, k, lastKCycle) == IF 2 * k = n THEN 1 ELSE lastKCycle

(***************************************************************************)
(* fftGen as a function: the whole text printed for (n, flags).            *)
(***************************************************************************)

\* Lines of the fill loop for i = lo..hi.
RECURSIVE FillsRange(_, _, _, _, _)
FillsRange(n, swap, nSwap, lo, hi) ==
    IF lo > hi THEN << >>
    ELSE IF lo = hi THEN FillLines(n, swap, nSwap, lo)
    ELSE LET mid == (lo + hi) \div 2
         IN  FillsRange(n, swap, nSwap, lo, mid) \o FillsRange(n, swap, nSwap, mid + 1, hi)

\* Lines of the swap emission loop for k = lo..hi.
RECURSIVE SwapsRange(_, _, _, _, _)
SwapsRange(n, realIn, swap, lo, hi) ==
    IF lo > hi THEN << >>
    ELSE IF lo = hi THEN SwapLines(n, realIn, swap[lo])
    ELSE LET mid == (lo + hi) \div 2
         IN  SwapsRange(n, realIn, swap, lo, mid) \o SwapsRange(n, realIn, swap, mid + 1, hi)

\* One butterfly applied to st = [lines, nzi];  o = [n, inv, realIn,
\* realOut, symmOut, lastKCycle].
ButterflyOn(st, o, k, m, ii) ==
    LET b == Butterfly(o.n, o.inv, o.realIn, o.realOut, o.symmOut, o.lastKCycle,
                       k, m, ii, st.nzi)
    IN  [lines |-> st.lines \o b.lines, nzi |-> b.nzi]

\* Iterations i = lo..hi of  for (i=m; i<=nm; ++i);  ii = m + (i-m)*istep.
RECURSIVE InnerRange(_, _, _, _, _, _)
InnerRange(st, o, k, m, lo, hi) ==
    IF lo > hi THEN st
    ELSE IF lo = hi THEN ButterflyOn(st, o, k, m, m + (lo - m) * (2 * k))
    ELSE LET mid == (lo + hi) \div 2
         IN  The({InnerRange(r, o, k, m, mid + 1, hi) :
                    r \in {InnerRange(st, o, k, m, lo, mid)}})

\* Iterations m = lo..hi of  for (m=0; m<k; ++m).
RECURSIVE GroupRange(_, _, _, _, _)
GroupRange(st, o, k, lo, hi) ==
    IF lo > hi THEN st
    ELSE IF lo = hi
    THEN InnerRange(st, o, k, lo, lo, ((o.n - 1) - lo) \div (2 * k) + lo)
    ELSE LET mid == (lo + hi) \div 2
         IN  The({GroupRange(r, o, k, mid + 1, hi) :
                    r \in {GroupRange(st, o, k, lo, mid)}})

\* for (k=1; k<n; k=istep)
RECURSIVE StageLoop(_, _, _)
StageLoop(st, o, k) ==
    IF k >= o.n THEN st
    ELSE LET o1 == [o EXCEPT !.lastKCycle = StageFlag(o.n, k, o.lastKCycle)]
         IN  The({StageLoop(r, o1, 2 * k) : r \in {GroupRange(st, o1, k, 0, k - 1)}})

fftGen(n, inv, realIn, realOut, symmIn, symmOut) ==
    LET p     == Plan(n, symmIn)
        fills == IF symmIn
                 THEN FillsRange(n, p.swap, p.nSwap, n \div 2 + 1, n - 1)
                 ELSE << >>
        perm  == fills \o SwapsRange(n, realIn, p.swap, 0, p.nSwap - 1)
                       \o << BlankLine >>
        o     == [n |-> n, inv |-> inv, realIn |-> realIn, realOut |-> realOut,
                  symmOut |-> symmOut, lastKCycle |-> 0]
    IN  StageLoop([lines |-> perm, nzi |-> NziInit(n, realIn)], o, 1).lines

(***************************************************************************)
(* The harness: arrays xr[N], xi[N] and the temporaries tr, ti of fft().   *)
(* The temporaries are not initialised by the harness; their initial       *)
(* content is part of the input.                                           *)
(***************************************************************************)

Dim(n) == TwL(n) \div 2

\* The arrays with the integers fr[j], fi[j] and the temporaries holding t.
IntMem(n, fr, fi, t) ==
    [xr |-> [j \in 0..(n - 1) |-> RInt(Dim(n), fr[j])],
     xi |-> [j \in 0..(n - 1) |-> RInt(Dim(n), fi[j])],
     tr |-> RInt(Dim(n), t), ti |-> RInt(Dim(n), t)]

\* COMPLEX array of a memory, and back.
AsComplex(mem) == [j \in DOMAIN mem.xr |-> [r |-> mem.xr[j], i |-> mem.xi[j]]]
OfComplex(x, t) ==
    [xr |-> [j \in DOMAIN x |-> x[j].r], xi |-> [j \in DOMAIN x |-> x[j].i],
     tr |-> t, ti |-> t]

\* xr[i] = 1 at one index (re) / xi[i] = 1 at one index (~re).
Impulse(n, p, re) ==
    IntMem(n, [j \in 0..(n - 1) |-> IF re /\ j = p THEN 1 ELSE 0],
              [j \in 0..(n - 1) |-> IF ~re /\ j = p THEN 1 ELSE 0], 0)

\* xr[i] = i, xi[i] = 0
Ramp(n) == IntMem(n, [j \in 0..(n - 1) |-> j], [j \in 0..(n - 1) |-> 0], 0)

\* xr[i] = i, xi[i] = 2i+1, with temporaries holding t
ComplexRamp(n, t) ==
    IntMem(n, [j \in 0..(n - 1) |-> j], [j \in 0..(n - 1) |-> 2 * j + 1], t)

\* Result of the reference FFT on a memory.
RefFFT(n, mem) == OfComplex(fftRef(AsComplex(mem), n), RInt(Dim(n), 0))

\* Arbitrary data in xr[i], xi[i] for i > N/2.
JunkUpper(n, mem) ==
    [mem EXCEPT !.xr = [j \in 0..(n - 1) |->
                            IF j > n \div 2 THEN RInt(Dim(n), 3 * j + 1) ELSE mem.xr[j]],
                !.xi = [j \in 0..(n - 1) |->
                            IF j > n \div 2 THEN RInt(Dim(n), 5 * j + 2) ELSE mem.xi[j]]]

\* xr[i] = i*i mod 7, xi[i] = 0
Squares(n) ==
    IntMem(n, [j \in 0..(n - 1) |-> (j * j) % 7], [j \in 0..(n - 1) |-> 0], 0)

\* Inputs with xi[i] = 0 for all i.
RealInputs(n) == {Ramp(n), Squares(n), Impulse(n, 1 % n, TRUE)}

\* Inputs with x[i] = conj(x[n-i]): the FFT of a real sequence.
HermitianInputs(n) == {RefFFT(n, x) : x \in RealInputs(n)}

Inputs(n) ==
    RealInputs(n)
    \cup {Impulse(n, 0, FALSE), Impulse(n, n - 1, FALSE)}
    \cup {ComplexRamp(n, 0), ComplexRamp(n, 5)}
    \cup HermitianInputs(n)
    \cup {JunkUpper(n, x) : x \in HermitianInputs(n)}

(***************************************************************************)
(* State                                                                   *)
(***************************************************************************)

VARIABLES n, inv, realIn, realOut, symmIn, symmOut,
          pc, m, mr, k, i, ii, lastKCycle, swap, nSwap, nzi, out,
          xOri, xr, xi,
          license, sink, exitCode, diag

vars == << n, inv, realIn, realOut, symmIn, symmOut,
           pc, m, mr, k, i, ii, lastKCycle, swap, nSwap, nzi, out,
           xOri, xr, xi,
           license, sink, exitCode, diag >>

flags == << n, inv, realIn, realOut, symmIn, symmOut >>
harness == << xOri, xr, xi >>

\* State of main: the license option, the exit code ("none" while the
\* program runs) and the messages written to stderr.
driver == << license, exitCode, diag >>

\* stdout after the lines have been passed to it.  out is what the program
\* has passed to stdout;  sink is "ok" while stdout accepts writes, "broken"
\* when the next write will fail and "failed" once a write has failed.
\* printf, fputs and putchar report the failure in their return value,
\* which the program does not look at.
Written(lines) == IF lines = << >> \/ sink = "ok" THEN sink ELSE "failed"

Init ==
    /\ n \in {Pow2(p) : p \in 0..MaxLogN}
    /\ inv \in BOOLEAN /\ realIn \in BOOLEAN /\ realOut \in BOOLEAN
    /\ symmIn \in BOOLEAN /\ symmOut \in BOOLEAN
    /\ pc = "plan"
    /\ m = 1 /\ mr = 0 /\ nSwap = 0
    /\ k = 0 /\ i = 0 /\ ii = 0 /\ lastKCycle = 0
    /\ swap = SwapInit(n)
    /\ nzi = NziInit(n, realIn)
    /\ out = << >>
    /\ xOri = << >> /\ xr = << >> /\ xi = << >>
    /\ license = FALSE /\ sink = "ok" /\ exitCode = "none" /\ diag = << >>

\* One iteration of the planner loop, lines 674-760.
PlanStep ==
    /\ pc = "plan" /\ m <= n - 1
    /\ LET st == PlanIter(n, symmIn, [mr |-> mr, nSwap |-> nSwap, swap |-> swap], m)
       IN  mr' = st.mr /\ nSwap' = st.nSwap /\ swap' = st.swap
    /\ m' = m + 1
    /\ UNCHANGED << flags, harness, pc, k, i, ii, lastKCycle, nzi, out, driver, sink >>

\* Faulty variant: the fill loop is skipped.
PlanDone_SkipFill ==
    /\ pc = "plan" /\ m > n - 1
    /\ pc' = "perm"
    /\ i' = i
    /\ k' = 0
    /\ UNCHANGED << flags, harness, m, mr, ii, lastKCycle, swap, nSwap, nzi, out, driver, sink >>

\* End of the planner loop;  if (symmIn) for (i=n/2+1; ...
PlanDone ==
    /\ pc = "plan" /\ m > n - 1
    /\ pc' = IF symmIn THEN "fill" ELSE "perm"
    /\ i' = IF symmIn THEN n \div 2 + 1 ELSE i
    /\ k' = IF symmIn THEN k ELSE 0
    /\ UNCHANGED << flags, harness, m, mr, ii, lastKCycle, swap, nSwap, nzi, out, driver, sink >>

\* One iteration of the fill loop, lines 769-777.
FillStep ==
    /\ pc = "fill" /\ i < n
    /\ out' = out \o FillLines(n, swap, nSwap, i)
    /\ sink' = Written(FillLines(n, swap, nSwap, i))
    /\ i' = i + 1
    /\ UNCHANGED << flags, harness, driver, pc, m, mr, k, ii, lastKCycle, swap, nSwap, nzi >>

FillDone ==
    /\ pc = "fill" /\ i >= n
    /\ pc' = "perm" /\ k' = 0
    /\ UNCHANGED << flags, harness, m, mr, i, ii, lastKCycle, swap, nSwap, nzi, out, driver, sink >>

\* One iteration of the swap emission loop, lines 783-816.
SwapEmit ==
    /\ pc = "perm" /\ k < nSwap
    /\ out' = out \o SwapLines(n, realIn, swap[k])
    /\ sink' = Written(SwapLines(n, realIn, swap[k]))
    /\ k' = k + 1
    /\ UNCHANGED << flags, harness, driver, pc, m, mr, i, ii, lastKCycle, swap, nSwap, nzi >>

\* putchar ('\n');  and entry of the stage loop  for (k=1; k<n; k=istep).
PermDone ==
    /\ pc = "perm" /\ k >= nSwap
    /\ out' = out \o << BlankLine >>
    /\ sink' = Written(<< BlankLine >>)
    /\ k' = 1 /\ m' = 0 /\ i' = 0 /\ ii' = 0
    /\ lastKCycle' = IF 1 < n THEN StageFlag(n, 1, lastKCycle) ELSE lastKCycle
    /\ pc' = "fft"
    /\ UNCHANGED << flags, harness, driver, mr, swap, nSwap, nzi >>

\* One butterfly, lines 833-1062, and the loop steps that follow it.
ButterflyStep ==
    /\ pc = "fft" /\ k < n
    /\ LET b  == Butterfly(n, inv, realIn, realOut, symmOut, lastKCycle, k, m, ii, nzi)
           np == NextPos(n, k, m, i, ii)
       IN  /\ out' = out \o b.lines
           /\ sink' = Written(b.lines)
           /\ nzi' = b.nzi
           /\ k' = np.k /\ m' = np.m /\ i' = np.i /\ ii' = np.ii
           /\ lastKCycle' = IF np.k < n THEN StageFlag(n, np.k, lastKCycle)
                            ELSE lastKCycle
    /\ UNCHANGED << flags, harness, driver, pc, mr, swap, nSwap >>

\* free (swap); free (nzi);  return to main.
Finish ==
    /\ pc = "fft" /\ k >= n
    /\ pc' = "done"
    /\ UNCHANGED << flags, harness, m, mr, k, i, ii, lastKCycle, swap, nSwap, nzi, out, driver, sink >>

\* The harness runs the generated text on an input.
Run ==
    /\ pc = "done" /\ n <= Pow2(MaxLogRun)
    /\ \E x0 \in Inputs(n) :
            LET r == ExecCode(x0, out)
            IN  xOri' = x0 /\ xr' = r.xr /\ xi' = r.xi
    /\ pc' = "ran"
    /\ UNCHANGED << flags, m, mr, k, i, ii, lastKCycle, swap, nSwap, nzi, out, driver, sink >>

Next ==
    \/ PlanStep \/ PlanDone \/ FillStep \/ FillDone
    \/ SwapEmit \/ PermDone \/ ButterflyStep \/ Finish \/ Run

Spec == Init /\ [][Next]_vars

(***************************************************************************)
(* main, from the validation of n on: the options have been read into n,   *)
(* the flags and license.  n is an int of 32 bits.                          *)
(***************************************************************************)

\* INT_MAX and INT_MIN
IntMax == 2147483647
IntMin == (0 - IntMax) - 1

\* a & b on ints in two's complement: \div rounds down and % is never
\* negative, so a \div 2 is the arithmetic shift and a % 2 the lowest bit.
RECURSIVE BitAnd(_, _)
BitAnd(a, b) ==
    IF a = 0 \/ b = 0 THEN 0
    ELSE IF a = 0 - 1 THEN b
    ELSE IF b = 0 - 1 THEN a
    ELSE (a % 2) * (b % 2) + 2 * BitAnd(a \div 2, b \div 2)

\* Faulty variant: n = 1 is refused as well.
NotPowerOfTwo_RefusesOne(v) ==
    IF v = IntMin THEN BOOLEAN
    ELSE {BitAnd(v, v - 1) # 0 \/ v = 1}

\* The values  n & (n-1)  can have as a condition.  n-1 overflows for
\* n = INT_MIN, which is undefined: the condition may come out either way
\* (it is false when the subtraction wraps around).
NotPowerOfTwo(v) ==
    IF v = IntMin THEN BOOLEAN
    ELSE {BitAnd(v, v - 1) # 0}

\* fputs (licenseText, stdout);
LicenseText == Line(Var("license", 0), "", << >>)

\* malloc (sizeof(int)*n), malloc (sizeof(SWAP)*n) return NULL: a negative
\* n converts to a size no allocation can satisfy.
AllocFails(v) == v < 0

\* Values of n main is started with.
MainN ==
    {IntMin, 0 - 8, 0 - 1, 0, 3, 6, IntMax} \cup {Pow2(p) : p \in 0..MaxLogMain}

InitMain ==
    /\ n \in MainN
    /\ inv \in BOOLEAN /\ realIn \in BOOLEAN /\ realOut \in BOOLEAN
    /\ symmIn \in BOOLEAN /\ symmOut \in BOOLEAN
    /\ license \in BOOLEAN
    /\ pc = "main"
    /\ m = 0 /\ mr = 0 /\ nSwap = 0
    /\ k = 0 /\ i = 0 /\ ii = 0 /\ lastKCycle = 0
    /\ swap = << >> /\ nzi = << >>
    /\ out = << >>
    /\ xOri = << >> /\ xr = << >> /\ xi = << >>
    /\ sink = "ok" /\ exitCode = "none" /\ diag = << >>

\* if (n == 0) ...  if (n & (n-1)) ...;  info (stderr) ends in
\* exit (EXIT_FAILURE).
MainCheck ==
    /\ pc = "main"
    /\ \E bad \in NotPowerOfTwo(n) :
         IF n = 0
         THEN /\ diag' = Append(diag, "No number of points specified.")
              /\ exitCode' = "failure" /\ pc' = "exit"
         ELSE IF bad
         THEN /\ diag' = Append(diag, "is not a power of two.")
              /\ exitCode' = "failure" /\ pc' = "exit"
         ELSE /\ pc' = "emit"
              /\ UNCHANGED << diag, exitCode >>
    /\ UNCHANGED << flags, harness, license, sink, m, mr, k, i, ii, lastKCycle,
                    swap, nSwap, nzi, out >>

\* if (license) fputs (licenseText, stdout);  fputs (header, stdout);
\* header is the empty string.
MainEmit ==
    /\ pc = "emit"
    /\ LET lines == IF license THEN << LicenseText >> ELSE << >>
       IN  out' = out \o lines /\ sink' = Written(lines)
    /\ pc' = "enter"
    /\ UNCHANGED << flags, harness, driver, m, mr, k, i, ii, lastKCycle,
                    swap, nSwap, nzi >>

\* fftGen up to the planner loop: nzi and swap are allocated and filled.
Enter ==
    /\ pc = "enter"
    /\ IF AllocFails(n)
       THEN /\ diag' = Append(diag, "Error allocating memory")
            /\ exitCode' = "failure" /\ pc' = "exit"
            /\ UNCHANGED << m, mr, nSwap, swap, nzi >>
       ELSE /\ nzi' = NziInit(n, realIn)
            /\ swap' = SwapInit(n)
            /\ m' = 1 /\ mr' = 0 /\ nSwap' = 0
            /\ pc' = "plan"
            /\ UNCHANGED << diag, exitCode >>
    /\ UNCHANGED << flags, harness, license, sink, k, i, ii, lastKCycle, out >>

\* fputs (footer, stdout);  return EXIT_SUCCESS;   footer is the empty string.
MainReturn ==
    /\ pc = "done"
    /\ exitCode' = "success" /\ pc' = "exit"
    /\ UNCHANGED << flags, harness, license, diag, sink, m, mr, k, i, ii,
                    lastKCycle, swap, nSwap, nzi, out >>

\* The environment: stdout stops accepting writes (full device, closed
\* pipe).
SinkBreaks ==
    /\ pc \in {"emit", "enter", "plan", "fill", "perm", "fft"}
    /\ sink = "ok"
    /\ sink' = "broken"
    /\ UNCHANGED << flags, harness, driver, pc, m, mr, k, i, ii, lastKCycle,
                    swap, nSwap, nzi, out >>

NextMain ==
    \/ MainCheck \/ MainEmit \/ Enter
    \/ PlanStep \/ PlanDone \/ FillStep \/ FillDone
    \/ SwapEmit \/ PermDone \/ ButterflyStep \/ Finish
    \/ MainReturn \/ SinkBreaks

SpecMain == InitMain /\ [][NextMain]_vars

(***************************************************************************)
(* The generator alone, for the sizes of the table "Size of the Generated  *)
(* Code": fftGen is entered with n up to 2^MaxLogSize and with the option  *)
(* sets  none,  -r -s  and  -m,  each with and without -i.  The text is    *)
(* not run.                                                                *)
(***************************************************************************)

\* << realIn, realOut, symmIn, symmOut >>
SizeOptions ==
    { << FALSE, FALSE, FALSE, FALSE >>,
      << TRUE,  FALSE, FALSE, TRUE  >>,
      << FALSE, FALSE, TRUE,  FALSE >> }

InitSize ==
    /\ n \in {Pow2(p) : p \in 0..MaxLogSize}
    /\ inv \in BOOLEAN
    /\ \E o \in SizeOptions :
            realIn = o[1] /\ realOut = o[2] /\ symmIn = o[3] /\ symmOut = o[4]
    /\ pc = "plan"
    /\ m = 1 /\ mr = 0 /\ nSwap = 0
    /\ k = 0 /\ i = 0 /\ ii = 0 /\ lastKCycle = 0
    /\ swap = SwapInit(n)
    /\ nzi = NziInit(n, realIn)
    /\ out = << >>
    /\ xOri = << >> /\ xr = << >> /\ xi = << >>
    /\ license = FALSE /\ sink = "ok" /\ exitCode = "none" /\ diag = << >>

NextSize ==
    \/ PlanStep \/ PlanDone \/ FillStep \/ FillDone
    \/ SwapEmit \/ PermDone \/ ButterflyStep \/ Finish

SpecSize == InitSize /\ [][NextSize]_vars

(***************************************************************************)
(* Properties of the planner and of the permutation it emits.              *)
(***************************************************************************)

\* j with its log2(w) low bits in reverse order, appended to acc.
RECURSIVE BitRevAcc(_, _, _)
BitRevAcc(w, j, acc) ==
    IF w <= 1 THEN acc ELSE BitRevAcc(w \div 2, j \div 2, 2 * acc + (j % 2))

BitRev(w, j) == BitRevAcc(w, j, 0)

\* The state in which the permutation has just been emitted: out holds the
\* fills and the swaps and nothing else.
PermEmitted == pc = "perm" /\ k >= nSwap

\* Arrays with pairwise different entries.
PermInputs(w) ==
    {ComplexRamp(w, 0), ComplexRamp(w, 5), JunkUpper(w, ComplexRamp(w, 0))}

\* mem with x[j] = conj(x[w-j]) stored for j = w/2+1 .. w-1.
HermFill(w, mem) ==
    [mem EXCEPT !.xr = [j \in 0..(w - 1) |->
                            IF j > w \div 2 THEN mem.xr[w - j] ELSE mem.xr[j]],
                !.xi = [j \in 0..(w - 1) |->
                            IF j > w \div 2 THEN RNeg(mem.xi[w - j]) ELSE mem.xi[j]]]

\* Indices a record reads and writes.
RecReads(r) == IF r.symmIn = 0 THEN {r.m, r.mr} ELSE {r.m_new, r.mr_new}
RecWrites(r) == {r.m, r.mr}

\* C1: with symmIn, the emitted fills followed by the emitted records, run
\* on an untouched array, leave at every index 0..n-1 the value that the
\* plain bit reversal leaves on the array whose upper half was first set to
\* conj(x[n-i]).  With realIn the xi statements are not emitted and the
\* statement is about xr.
C1_SymmPermRefinesPlain ==
    (PermEmitted /\ symmIn) =>
        \A x \in PermInputs(n) :
            LET got  == ExecCode(x, out)
                want == RefPerm(AsComplex(HermFill(n, x)), n)
            IN  \A j \in 0..(n - 1) :
                    /\ got.xr[j] = want[j].r
                    /\ ~realIn => got.xi[j] = want[j].i

\* A symmIn permutation with a fill and with a record moved in front of an
\* older one has been emitted with its xi statements.
C1_Witness ==
    /\ PermEmitted /\ symmIn /\ ~realIn
    /\ \E j \in 1..(n - 1) : NotListed(swap, nSwap, j) /\ j > n \div 2
    /\ \E p \in 0..(nSwap - 2) : swap[p].symmIn = 1 /\ swap[p].m > swap[p + 1].m

\* C2: with symmIn, in the final record order no record reads an index
\* that a record before it has written.
C2_NoReadOfWritten ==
    (pc # "plan" /\ symmIn) =>
        \A q \in 0..(nSwap - 1) : \A p \in 0..(q - 1) :
            RecReads(swap[q]) \cap RecWrites(swap[p]) = {}

\* A conjugate-copy record stands in front of a plain record that writes an
\* index the copy reads.
C2_Witness ==
    /\ pc # "plan" /\ symmIn
    /\ \E p \in 0..(nSwap - 1) : \E q \in (p + 1)..(nSwap - 1) :
            /\ swap[p].symmIn = 1 /\ swap[q].symmIn = 0
            /\ swap[p].m > swap[q].m
            /\ RecReads(swap[p]) \cap RecWrites(swap[q]) # {}

\* C10: without symmIn there is exactly one record (m, bitrev(m)) for each
\* m in 1..n-1 with bitrev(m) > m, in increasing m and all plain, and the
\* emitted swaps move every element j to position bitrev(j).
C10_PlainPlanIsBitReversal ==
    LET S == {j \in 1..(n - 1) : BitRev(n, j) > j}
    IN  /\ (pc # "plan" /\ ~symmIn) =>
                /\ nSwap = Cardinality(S)
                /\ \A p \in 0..(nSwap - 1) :
                        /\ swap[p].symmIn = 0
                        /\ swap[p].m \in S
                        /\ swap[p].mr = BitRev(n, swap[p].m)
                /\ \A p \in 0..(nSwap - 2) : swap[p].m < swap[p + 1].m
        /\ (PermEmitted /\ ~symmIn) =>
                \A x \in PermInputs(n) :
                    LET got == ExecCode(x, out)
                    IN  \A j \in 0..(n - 1) :
                            /\ got.xr[BitRev(n, j)] = x.xr[j]
                            /\ ~realIn => got.xi[BitRev(n, j)] = x.xi[j]

\* The six swaps of n = 16 have been emitted with their xi statements.
C10_Witness ==
    PermEmitted /\ ~symmIn /\ ~realIn /\ n = 16 /\ nSwap = 6 /\ Len(out) = 36

(***************************************************************************)
(* Properties of the generated transform.                                  *)
(***************************************************************************)

Zero == RInt(Dim(n), 0)

Log2(w) == CHOOSE p \in 0..w : Pow2(p) = w

NoOptFlags == ~realIn /\ ~realOut /\ ~symmIn /\ ~symmOut

\* The memory after the run, with the temporaries as they were before it.
ResultMem == [xr |-> xr, xi |-> xi, tr |-> xOri.tr, ti |-> xOri.ti]

IsReal(mem) == \A j \in DOMAIN mem.xi : mem.xi[j] = Zero

\* x[j] = conj(x[n-j]) for j = 1..n-1
IsHermitian(mem) ==
    \A j \in 1..(n - 1) :
        mem.xr[j] = mem.xr[n - j] /\ mem.xi[j] = RNeg(mem.xi[n - j])

\* C3: with no flag set, the emitted code leaves in xr, xi what fftRef
\* computes from the same input, in exact arithmetic.
C3_PlainEqualsFftRef ==
    (pc = "ran" /\ ~inv /\ NoOptFlags) =>
        LET ref == fftRef(AsComplex(xOri), n)
        IN  \A j \in 0..(n - 1) : xr[j] = ref[j].r /\ xi[j] = ref[j].i

\* The plain transform of size 16 has run on a complex input, with
\* arbitrary content in the temporaries.
C3_Witness ==
    /\ pc = "ran" /\ ~inv /\ NoOptFlags /\ n = 16
    /\ xOri = ComplexRamp(16, 5)
    /\ xr[0] = RInt(Dim(n), 120) /\ xi[0] = RInt(Dim(n), 256)

\* C4: for n >= 2 the code emitted with inv, run on the result of the code
\* emitted without inv, gives n times the input at every index.
C4_InverseOfForward ==
    (pc = "ran" /\ ~inv /\ NoOptFlags /\ n >= 2) =>
        LET back == ExecCode(ResultMem, fftGen(n, TRUE, FALSE, FALSE, FALSE, FALSE))
        IN  \A j \in 0..(n - 1) :
                /\ RHalve(back.xr[j], Log2(n)) = xOri.xr[j]
                /\ RHalve(back.xi[j], Log2(n)) = xOri.xi[j]

\* The forward transform of size 16 has run on an impulse in xi[15], whose
\* transform has no zero entry.
C4_Witness ==
    /\ pc = "ran" /\ ~inv /\ NoOptFlags /\ n = 16
    /\ xOri = Impulse(16, 15, FALSE)
    /\ \A j \in 0..(n - 1) : xr[j] # Zero \/ xi[j] # Zero

\* Butterflies completed when the stage loop stands at (k, m, i).
ButterfliesDone == Log2(k) * (n \div 2) + m * (n \div (2 * k)) + (i - m)

\* The text printed without optimisation flags up to the same butterfly:
\* six lines per swap, the blank line, six lines per butterfly.
PlainPrefix ==
    LET code == fftGen(n, inv, FALSE, FALSE, FALSE, FALSE)
        perm == 6 * Plan(n, FALSE).nSwap + 1
    IN  SubSeq(code, 1, perm + 6 * (IF k >= n THEN (n \div 2) * Log2(n)
                                    ELSE ButterfliesDone))

\* C5: with realIn and no other optimisation flag, on an input with xi = 0
\* the emitted code leaves in xr and xi what the code emitted without
\* realIn leaves; and whenever the emitter holds nzi[j] = 0, xi[j] is zero
\* at that point of the unoptimised run.
C5_RealInEqualsPlain ==
    /\ (pc = "ran" /\ realIn /\ ~realOut /\ ~symmIn /\ ~symmOut /\ IsReal(xOri)) =>
            LET plain == ExecCode(xOri, fftGen(n, inv, FALSE, FALSE, FALSE, FALSE))
            IN  xr = plain.xr /\ xi = plain.xi
    /\ (pc = "fft" /\ realIn /\ ~realOut /\ ~symmIn /\ ~symmOut
                   /\ n <= Pow2(MaxLogRun)) =>
            \A x \in RealInputs(n) :
                LET mid == ExecCode(x, PlainPrefix)
                IN  \A j \in 0..(n - 1) : nzi[j] = 0 => mid.xi[j] = Zero

\* The realIn transform of size 16 has run on the ramp and has produced
\* imaginary parts, while xi[0] and xi[8] are still known to be zero.
C5_Witness ==
    /\ pc = "ran" /\ realIn /\ ~realOut /\ ~symmIn /\ ~symmOut /\ ~inv /\ n = 16
    /\ xOri = Ramp(16)
    /\ xi[1] # Zero /\ nzi[1] = 1 /\ nzi[0] = 0 /\ nzi[8] = 0

\* mem with every xi[j] changed.
AlterImag(mem) ==
    [mem EXCEPT !.xi = [j \in DOMAIN mem.xi |->
                            RAdd(mem.xi[j], RInt(Dim(n), 3 * j + 1))]]

\* Indices at which the text has to produce xi.
XiRequired ==
    IF realOut THEN {} ELSE IF symmOut THEN 0..(n \div 2) ELSE 0..(n - 1)

\* C6: with realIn and n >= 2, a run from the same xr and another xi ends
\* with the same xr at every index and the same xi at every index the text
\* has to produce.
C6_RealInIgnoresXi ==
    (pc = "ran" /\ realIn /\ n >= 2) =>
        LET other == ExecCode(AlterImag(xOri), out)
        IN  /\ xr = other.xr
            /\ \A j \in XiRequired : xi[j] = other.xi[j]

\* The realIn transform of size 16 has run on an input with xi[j] = 2j+1
\* and has overwritten xi[0] and xi[8] with 0.0.
C6_Witness ==
    /\ pc = "ran" /\ realIn /\ ~realOut /\ ~symmIn /\ ~symmOut /\ n = 16
    /\ xOri = ComplexRamp(16, 0)
    /\ xi[0] = Zero /\ xi[8] = Zero /\ xi[1] # Zero

\* C7: with symmOut, on an input with xi = 0 the emitted code leaves at the
\* indices 0..n/2 the xr and xi that the code emitted without symmOut, the
\* other flags unchanged, leaves there.
C7_SymmOutLowerHalf ==
    (pc = "ran" /\ symmOut /\ IsReal(xOri)) =>
        LET full == ExecCode(xOri, fftGen(n, inv, realIn, realOut, symmIn, FALSE))
        IN  \A j \in 0..(n \div 2) : xr[j] = full.xr[j] /\ xi[j] = full.xi[j]

\* The symmOut transform of size 16 has run on the squares and has left
\* xr[15], xi[15] different from xr[1], -xi[1].
C7_Witness ==
    /\ pc = "ran" /\ symmOut /\ ~inv /\ ~realIn /\ ~realOut /\ ~symmIn /\ n = 16
    /\ xOri = Squares(16)
    /\ xr[15] # xr[1] /\ xi[15] # RNeg(xi[1]) /\ xi[1] # Zero

\* mem with every xr[j], xi[j], j > n/2, changed.
AlterUpper(mem) ==
    [mem EXCEPT !.xr = [j \in DOMAIN mem.xr |->
                            IF j > n \div 2
                            THEN RAdd(mem.xr[j], RInt(Dim(n), j)) ELSE mem.xr[j]],
                !.xi = [j \in DOMAIN mem.xi |->
                            IF j > n \div 2
                            THEN RAdd(mem.xi[j], RInt(Dim(n), 2 * j + 1)) ELSE mem.xi[j]]]

\* Variables a line reads.
LineReads(ln) ==
    {ln.rhs[t].v : t \in DOMAIN ln.rhs} \cup (IF ln.op = "+=" THEN {ln.lhs} ELSE {})

\* C8: with symmIn, a run from an input that differs in xr[j], xi[j] for
\* j > n/2 ends with the same xr at every index and the same xi at every
\* index the text has to produce; no line of the text reads such an element
\* unless a line before it has written it.
C8_SymmInIgnoresUpper ==
    /\ (pc = "ran" /\ symmIn) =>
            LET other == ExecCode(AlterUpper(xOri), out)
            IN  /\ xr = other.xr
                /\ \A j \in XiRequired : xi[j] = other.xi[j]
    /\ (pc = "done" /\ symmIn) =>
            \A q \in 1..Len(out) : \A v \in LineReads(out[q]) :
                (v.a \in {"xr", "xi"} /\ v.i > n \div 2) =>
                    \E p \in 1..(q - 1) : out[p].lhs = v

\* The symmIn transform of size 16 has run on an input whose upper half is
\* not the conjugate mirror of the lower half; its text has fills.
C8_Witness ==
    /\ pc = "ran" /\ symmIn /\ ~realIn /\ n = 16
    /\ xOri.xr[15] # xOri.xr[1] /\ xOri.xi[15] # RNeg(xOri.xi[1])
    /\ \E j \in 9..15 : NotListed(swap, nSwap, j)
    /\ xr[15] # Zero

\* The inverse transform of a Hermitian array by fftRef:
\* conj(fftRef(conj(x))).
RefInverse(mem) ==
    LET cj(x) == [j \in DOMAIN x |-> [r |-> x[j].r, i |-> RNeg(x[j].i)]]
    IN  cj(fftRef(cj(AsComplex(mem)), n))

\* C9: with inv, symmIn and realOut, on an input with x[j] = conj(x[n-j])
\* for j = 1..n-1 the emitted code leaves in xr the real parts of the
\* reference inverse transform; for n = 16 and the fftRef transform of
\* xr[j] = j, xr[j]/16 = j.
C9_HermitianInverse ==
    (pc = "ran" /\ inv /\ symmIn /\ realOut /\ ~realIn /\ ~symmOut
                /\ IsHermitian(xOri)) =>
        /\ LET ref == RefInverse(xOri)
           IN  \A j \in 0..(n - 1) : xr[j] = ref[j].r
        /\ (n = 16 /\ xOri = RefFFT(16, Ramp(16))) =>
                \A j \in 0..15 : RHalve(xr[j], 4) = RInt(Dim(n), j)

\* The inverse transform of size 16 has run on the transform of the ramp:
\* x[0] = 120, x[8] = -8, x[1] not real.
C9_Witness ==
    /\ pc = "ran" /\ inv /\ symmIn /\ realOut /\ ~realIn /\ ~symmOut /\ n = 16
    /\ IsHermitian(xOri)
    /\ xOri.xr[0] = RInt(Dim(n), 120) /\ xOri.xr[8] = RInt(Dim(n), 0 - 8)
    /\ xOri.xi[1] # Zero
    /\ xr[15] = RInt(Dim(n), 240)

(***************************************************************************)
(* Properties of the text: the statement forms.                            *)
(***************************************************************************)

IsElem(v) == v.a \in {"xr", "xi"}

\* <term>: lit*x, x or -x, x an element of xr or xi.
IsGrammarTerm(t) ==
    /\ IsElem(t.v)
    /\ \/ t.sign = ""
       \/ t.sign = "-" /\ t.lit = NoLit

\* (+|-) <term> with <term> one of lit*x, x.
IsJoinedTerm(t) == IsElem(t.v) /\ t.sign \in {"+", "-"}

\* tr = <term> [ (+|-) <term> ];  and the same for ti.
IsTempLine(ln) ==
    /\ ln.lhs \in {TR, TI} /\ ln.op = "="
    /\ Len(ln.rhs) \in {1, 2}
    /\ IsGrammarTerm(ln.rhs[1])
    /\ Len(ln.rhs) = 2 => IsJoinedTerm(ln.rhs[2])

\* The forms of the grammar with an element of xr or xi on the left.
IsElemLine(ln) ==
    LET a    == ln.lhs.a
        tmp  == IF a = "xr" THEN TR ELSE TI
        t1   == ln.rhs[1]
        same == t1.v.a = a
    IN  /\ IsElem(ln.lhs)
        /\ \/ /\ ln.op = "=" /\ Len(ln.rhs) = 1          \* x[a] = x[b], -x[b]
              /\ same /\ t1.lit = NoLit /\ t1.sign \in {"", "-"}
           \/ /\ ln.op = "=" /\ Len(ln.rhs) = 1          \* xr[a] = lit*xr[b]
              /\ a = "xr" /\ same /\ t1.lit # NoLit /\ t1.sign = ""
           \/ /\ ln.op = "=" /\ Len(ln.rhs) = 2          \* x[a] = x[b] - t
              /\ same /\ t1.lit = NoLit /\ t1.sign = ""
              /\ ln.rhs[2] = Term("-", NoLit, tmp)
           \/ /\ a = "xi" /\ ln.op = "="                 \* xi[a] = -ti, ti, 0.0
              /\ ln.rhs \in {<< Term("-", NoLit, TI) >>, << Term("", NoLit, TI) >>,
                             << Term("", NoLit, ZeroLit) >>}
           \/ ln.op = "+=" /\ ln.rhs = << Term("", NoLit, tmp) >>   \* x[a] += t

InGrammar(ln) == IsTempLine(ln) \/ IsElemLine(ln)

\* xr[a] = tr;
IsXrFromTr(ln) ==
    ln.lhs.a = "xr" /\ ln.op = "=" /\ ln.rhs = << Term("", NoLit, TR) >>

\* C11 as stated: every statement line of the output is an instance of a
\* form of the grammar; no assignment of tr to an element of xr is printed.
C11_ClosedGrammar ==
    \A q \in 1..Len(out) : out[q] = BlankLine \/ InGrammar(out[q])

\* C11 amended: every statement line of the output is an instance of a
\* form of the grammar or of  xr[<int>] = tr;  and every  tr =  and  ti =
\* statement has one term, or two terms joined by + or -.
C11_GrammarWithSwapStore ==
    \A q \in 1..Len(out) :
        \/ out[q] = BlankLine
        \/ InGrammar(out[q])
        \/ IsXrFromTr(out[q])

\* The text of size 16 is complete; it has a swap, a ti of two terms with
\* literals and a ti of the single term xr[jj] (wi = 1).
C11_Witness ==
    /\ pc = "done" /\ n = 16 /\ inv /\ NoOptFlags
    /\ \E q \in 1..Len(out) : IsXrFromTr(out[q])
    /\ \E q \in 1..Len(out) :
            /\ out[q].lhs = TI /\ Len(out[q].rhs) = 2
            /\ out[q].rhs[1].lit # NoLit /\ out[q].rhs[2].lit # NoLit
    /\ \E q \in 1..Len(out) :
            /\ out[q].lhs = TI /\ Len(out[q].rhs) = 1
            /\ out[q].rhs[1] = Term("", NoLit, XR(12))

(***************************************************************************)
(* Properties of main.                                                     *)
(***************************************************************************)

IsPositivePowerOfTwo(v) == \E p \in 0..30 : v = Pow2(p)

\* What main passes to stdout before it calls fftGen.
Banner == IF license THEN << LicenseText >> ELSE << >>

\* C12: when n is not a positive power of two, fftGen is not entered,
\* nothing is passed to stdout, and the program ends with the failure code
\* after a message on stderr.
C12_InvalidNRefused ==
    ~IsPositivePowerOfTwo(n) =>
        /\ pc \in {"main", "exit"}
        /\ out = << >>
        /\ pc = "exit" => exitCode = "failure" /\ diag # << >>

\* C13: the program does not end with the success code when a write to
\* stdout has failed.
C13_FailedWriteNoSuccess ==
    sink = "failed" => exitCode # "success"

\* C14 as stated: for n = 1 the program ends with the success code and has
\* passed nothing to stdout but the license text, when asked for.
C14_NothingForOne ==
    (n = 1 /\ pc = "exit") => exitCode = "success" /\ out = Banner

\* C14 amended: for n = 1 the program passes no statement to stdout, only
\* the license text, when asked for, and the empty line that ends the
\* permutation phase, and it ends with the success code.
C14_OnlyEmptyLineForOne ==
    n = 1 =>
        /\ \A q \in 1..Len(out) : out[q] \in {LicenseText, BlankLine}
        /\ pc = "exit" => exitCode = "success" /\ out = Banner \o << BlankLine >>

\* main has returned for n = 1 with all options set.
C14_Witness ==
    /\ n = 1 /\ pc = "exit" /\ exitCode = "success"
    /\ license /\ inv /\ realIn /\ realOut /\ symmIn /\ symmOut
    /\ Len(out) = 2

(***************************************************************************)
(* Properties of the two-point transform                                   *)
(***************************************************************************)

\* Positions of the lines that assign to v.
AssignsTo(v) == {q \in 1..Len(out) : out[q].lhs = v}

\* C15: for n = 2 and every combination of the five flags, no swap record
\* is planned and nothing is printed before the empty line (no swap, no
\* fill);  the text after it is one butterfly on ii = 0, jj = 1:
\*   tr = xr[1];  ...  xr[1] = xr[0] - tr;  ...  xr[0] += tr;
\* with no other assignment to tr, xr[0] or xr[1], and running the text
\* gives xr[0] = xr0 + xr1 and xr[1] = xr0 - xr1.
C15_SingleButterflyForTwo ==
    (n = 2 /\ pc \in {"done", "ran"}) =>
        /\ nSwap = 0
        /\ out[1] = BlankLine
        /\ out[2] = Line(TR, "=", << Term("", NoLit, XR(1)) >>)
        /\ AssignsTo(TR) = {2}
        /\ \E p, q \in 3..Len(out) :
                /\ p < q
                /\ out[p] = Line(XR(1), "=", << Term("", NoLit, XR(0)),
                                                Term("-", NoLit, TR) >>)
                /\ out[q] = Line(XR(0), "+=", << Term("", NoLit, TR) >>)
                /\ AssignsTo(XR(1)) = {p} /\ AssignsTo(XR(0)) = {q}
        /\ \A q \in 2..Len(out) :
                out[q].lhs \in {TR, TI, XR(0), XR(1), XI(0), XI(1)}
        /\ pc = "ran" =>
                /\ xr[0] = RAdd(xOri.xr[0], xOri.xr[1])
                /\ xr[1] = RSub(xOri.xr[0], xOri.xr[1])

\* The two-point text generated with all five flags set has been run on
\* an input with xr1 # 0 and xr0 # xr1.
C15_Witness ==
    /\ n = 2 /\ pc = "ran"
    /\ inv /\ realIn /\ realOut /\ symmIn /\ symmOut
    /\ xOri.xr[1] # Zero /\ xOri.xr[0] # xOri.xr[1]
    /\ Len(out) = 4

(***************************************************************************)
(* The eight-point ramp                                                    *)
(***************************************************************************)

\* The input has xr[i] = i for all i.
RampInput == \A j \in 0..(n - 1) : xOri.xr[j] = RInt(Dim(n), j)

\* C16: for n = 8 and xr[i] = i, the text generated with no flag, run with
\* xi = 0, leaves xr[0] = 28;  the text generated with real_in and symm_out
\* (and no other flag), run with any xi, leaves xr[0] = 28 and xr[4] = -4.
C16_EightPointRamp ==
    (n = 8 /\ pc = "ran" /\ RampInput /\ ~inv /\ ~realOut /\ ~symmIn) =>
        /\ (~realIn /\ ~symmOut /\ \A j \in 0..7 : xOri.xi[j] = Zero)
                => xr[0] = RInt(Dim(n), 28)
        /\ (realIn /\ symmOut)
                => xr[0] = RInt(Dim(n), 28) /\ xr[4] = RInt(Dim(n), 0 - 4)

\* The text for n = 8 with real_in and symm_out has been run on the ramp
\* with xi[i] = 2i+1.
C16_Witness ==
    /\ n = 8 /\ pc = "ran" /\ RampInput
    /\ ~inv /\ ~realOut /\ ~symmIn /\ realIn /\ symmOut
    /\ xOri.xi[3] = RInt(Dim(n), 7)
    /\ xr[4] = RInt(Dim(n), 0 - 4)

(***************************************************************************)
(* Size of the generated code                                              *)
(***************************************************************************)

\* Position of the empty line that ends the permutation phase (0 while it
\* has not been printed).
BlankPos ==
    IF \E q \in 1..Len(out) : out[q] = BlankLine
    THEN CHOOSE q \in 1..Len(out) : out[q] = BlankLine
    ELSE 0

\* Statement lines printed by the permutation phase and by the stages.
LOC_B == IF BlankPos = 0 THEN Len(out) ELSE BlankPos - 1
LOC_T == IF BlankPos = 0 THEN 0 ELSE Len(out) - BlankPos

\* C17: without optimisation flags every swap record printed so far has
\* given 6 statement lines and every butterfly printed so far has given 6;
\* the finished text has 6 * m * 2^(m-1) lines after the empty line for
\* n = 2^m, and for n = 8, 16, 32, 64 the two parts have (12, 72),
\* (36, 192), (72, 480), (168, 1152) lines, in total 84, 228, 552, 1320.
C17_PlainSize ==
    NoOptFlags =>
        /\ pc = "perm" => LOC_B = 6 * k /\ LOC_T = 0
        /\ pc \in {"fft", "done"} => LOC_B = 6 * nSwap
        /\ (pc = "fft" /\ k < n) => LOC_T = 6 * ButterfliesDone
        /\ pc = "done" =>
            /\ LOC_T = 6 * Log2(n) * (n \div 2)
            /\ n = 8  => << LOC_B, LOC_T, LOC_B + LOC_T >> = << 12, 72, 84 >>
            /\ n = 16 => << LOC_B, LOC_T, LOC_B + LOC_T >> = << 36, 192, 228 >>
            /\ n = 32 => << LOC_B, LOC_T, LOC_B + LOC_T >> = << 72, 480, 552 >>
            /\ n = 64 => << LOC_B, LOC_T, LOC_B + LOC_T >> = << 168, 1152, 1320 >>

\* The text for n = 64 without flags is complete.
C17_Witness ==
    n = 64 /\ NoOptFlags /\ pc = "done" /\ nSwap = 28 /\ LOC_B + LOC_T = 1320

\* C18: the text for n = 32 with real_in and symm_out and no other flag
\* has 365 statement lines.
C18_RealSymmSize ==
    (n = 32 /\ pc = "done" /\ realIn /\ symmOut /\ ~inv /\ ~realOut /\ ~symmIn)
        => LOC_B + LOC_T = 365

\* The text for n = 32 with real_in and symm_out is complete and shorter
\* than the plain one.
C18_Witness ==
    /\ n = 32 /\ pc = "done" /\ realIn /\ symmOut /\ ~inv /\ ~realOut /\ ~symmIn
    /\ LOC_B + LOC_T < 552

(***************************************************************************)
(* The tracking of nzi                                                     *)
(***************************************************************************)

\* l assigns to xi[j] a value that may be non-zero when z is the tracking
\* before the line:  xi[j] = xi[p] - ti,  xi[j] = - ti,  xi[j] = ti,  or
\* xi[j] = xi[p] with z[p] = 1.
StoresNonZero(l, j, z) ==
    /\ l.lhs = XI(j) /\ l.op = "="
    /\ \/ l.rhs = << Term("-", NoLit, TI) >>
       \/ l.rhs = << Term("", NoLit, TI) >>
       \/ \E p \in DOMAIN z :
            \/ l.rhs = << Term("", NoLit, XI(p)), Term("-", NoLit, TI) >>
            \/ l.rhs = << Term("", NoLit, XI(p)) >> /\ z[p] = 1

\* l is  xi[j] = 0.0;
StoresZero(l, j) == l = Line(XI(j), "=", << Term("", NoLit, ZeroLit) >>)

\* Until the first butterfly nzi is as initialised: all 0 with real_in,
\* all 1 without.
NziInitial ==
    pc \in {"plan", "fill", "perm"} =>
        /\ DOMAIN nzi = 0..(n - 1)
        /\ \A j \in DOMAIN nzi : nzi[j] = IF realIn THEN 0 ELSE 1

\* One step of the emitter: no entry goes from 1 to 0;  an entry goes from
\* 0 to 1 only if the step prints a line that stores a possibly non-zero
\* value in that slot;  such a line always leaves the entry 1;  a step that
\* prints  xi[j] = 0.0  leaves nzi[j] as it was.
NziStep ==
    LET new == SubSeq(out', Len(out) + 1, Len(out'))
    IN  \A j \in DOMAIN nzi :
            /\ nzi'[j] \in {0, 1}
            /\ nzi[j] = 1 => nzi'[j] = 1
            /\ (nzi[j] = 0 /\ nzi'[j] = 1)
                    => \E q \in 1..Len(new) : StoresNonZero(new[q], j, nzi)
            /\ (\E q \in 1..Len(new) : StoresNonZero(new[q], j, nzi))
                    => nzi'[j] = 1
            /\ (\E q \in 1..Len(new) : StoresZero(new[q], j))
                    => nzi'[j] = nzi[j]

\* C19: nzi starts all 0 when real_in is set and all 1 otherwise;  no entry
\* ever changes from 1 to 0;  nzi[i] changes from 0 to 1 exactly when the
\* emitter prints an assignment to xi[i] whose right-hand side contains ti
\* or is a slot tracked non-zero, and never when it prints xi[i] = 0.0.
C19_NziTracking == []NziInitial /\ [][NziStep]_vars

\* With real_in, in the middle of the stages: xi[0] = 0.0 has been printed
\* and nzi[0] is still 0, while another slot has been given ti and is 1.
C19_Witness ==
    /\ realIn /\ pc = "fft"
    /\ \E q \in 1..Len(out) : StoresZero(out[q], 0)
    /\ nzi[0] = 0
    /\ \E j \in DOMAIN nzi, q \in 1..Len(out) :
            nzi[j] = 1 /\ out[q] = Line(XI(j), "=", << Term("", NoLit, TI) >>)

(***************************************************************************)
(* The fields of the swap records                                          *)
(***************************************************************************)

\* What holds of every record, plain or not:  mr > m;  a record with
\* symmIn set has m or mr above n/2, m_new = n-m when m > n/2 and m
\* otherwise, mr_new = n-mr when mr > n/2 and mr otherwise.
RecordShape(r) ==
    /\ r.mr > r.m
    /\ r.symmIn \in {0, 1}
    /\ r.symmIn = 1 =>
        /\ r.m > n \div 2 \/ r.mr > n \div 2
        /\ r.m_new = (IF r.m > n \div 2 THEN n - r.m ELSE r.m)
        /\ r.mr_new = (IF r.mr > n \div 2 THEN n - r.mr ELSE r.mr)

GeneratedPairs(upto) ==
    {<< j, BitRev(n, j) >> : j \in {t \in 1..upto : BitRev(n, t) > t}}

\* The list holds each pair generated so far exactly once.
EachPairOnce ==
    pc \in {"plan", "fill", "perm"} =>
        /\ {<< swap[p].m, swap[p].mr >> : p \in 0..(nSwap - 1)} = GeneratedPairs(m - 1)
        /\ \A p, q \in 0..(nSwap - 1) :
                (swap[p].m = swap[q].m /\ swap[p].mr = swap[q].mr) => p = q

\* Sources substituted for the candidate (a, b).
SubstSources(a, b) ==
    (IF a > n \div 2 THEN {n - a} ELSE {}) \cup (IF b > n \div 2 THEN {n - b} ELSE {})

\* One planner step that takes a candidate (m, mr') with an index above
\* n/2 under symm_in:  P are the positions > 0 of the records that write a
\* substituted source;  the candidate goes to the least of them, the
\* records from there on move up by one, those before stay;  if there is
\* none the candidate goes to the end.
PlacedAsClaimed ==
    (pc = "plan" /\ symmIn /\ nSwap' = nSwap + 1
        /\ (m > n \div 2 \/ mr' > n \div 2)) =>
        LET src == SubstSources(m, mr')
            P   == {p \in 1..(nSwap - 1) : swap[p].m \in src \/ swap[p].mr \in src}
            at  == IF P = {} THEN nSwap
                   ELSE CHOOSE p \in P : \A q \in P : p <= q
        IN  /\ swap'[at].m = m /\ swap'[at].mr = mr' /\ swap'[at].symmIn = 1
            /\ \A q \in 0..(at - 1) : swap'[q] = swap[q]
            /\ \A q \in at..(nSwap - 1) : swap'[q + 1] = swap[q]

\* C21: with symm_in, a candidate with an index above n/2 is placed at the
\* position p > 0 of the first record whose m or mr is one of its
\* substituted sources, the records from p on shifted right by one in
\* unchanged order, and is appended when there is no such record;  after
\* every step the list holds each generated pair exactly once.
C21_InsertBeforeOverwriter == []EachPairOnce /\ [][PlacedAsClaimed]_vars

\* The planner has put a record in front of an older one and has also
\* appended a record with an index above n/2.
C21_Witness ==
    /\ pc = "plan" /\ symmIn /\ n >= 16
    /\ \E p \in 1..(nSwap - 2) : swap[p].symmIn = 1 /\ swap[p].m > swap[p + 1].m
    /\ swap[nSwap - 1].symmIn = 1

(***************************************************************************)
(* The order of the output                                                 *)
(***************************************************************************)

\* Index t is m or mr of no record.
InNoRecord(t) == \A p \in 0..(nSwap - 1) : swap[p].m # t /\ swap[p].mr # t

\* The pairs  xr[t] = xr[n-t]; xi[t] = -xi[n-t];  for the t in lo..hi that
\* are in no record, in increasing t.
RECURSIVE FillPairs(_, _)
FillPairs(lo, hi) ==
    IF lo > hi THEN << >>
    ELSE FillPairs(lo, hi - 1)
         \o (IF InNoRecord(hi)
             THEN << Line(XR(hi), "=", << Term("", NoLit, XR(n - hi)) >>),
                     Line(XI(hi), "=", << Term("-", NoLit, XI(n - hi)) >>) >>
             ELSE << >>)

\* All fills of the text.
AllFills == IF symmIn THEN FillPairs(n \div 2 + 1, n - 1) ELSE << >>

\* l is a statement on the temporaries and the elements a and b.
StatementOn(l, a, b) ==
    l.lhs \in {TR, TI, XR(a), XI(a), XR(b), XI(b)} /\ l.op \in {"=", "+="}

\* The fills come first and are the pairs of the indices above n/2 in no
\* record;  what follows them up to the empty line are statements of the
\* records printed so far.
FillsThenSwaps ==
    /\ pc = "fill" => symmIn /\ out = FillPairs(n \div 2 + 1, i - 1)
    /\ pc \in {"perm", "fft", "done", "ran"} =>
        /\ Len(out) >= Len(AllFills)
        /\ SubSeq(out, 1, Len(AllFills)) = AllFills
        /\ LET last == IF pc = "perm" THEN Len(out) ELSE BlankPos - 1
               recs == IF pc = "perm" THEN k ELSE nSwap
           IN  /\ last >= Len(AllFills)
               /\ recs = 0 => last = Len(AllFills)
               /\ \A q \in (Len(AllFills) + 1)..last :
                    \E p \in 0..(recs - 1) :
                        StatementOn(out[q], swap[p].m, swap[p].mr)

\* One step: the output only grows;  the phases follow each other as
\* planner, fills (with symm_in only), swaps, stages;  fills are printed in
\* the fill phase only, statements of record k and the empty line in the
\* swap phase only, and the stages print statements of the butterfly
\* (ii, ii+k) only.
PhaseOrder ==
    LET new == SubSeq(out', Len(out) + 1, Len(out'))
    IN  /\ Len(out') >= Len(out) /\ SubSeq(out', 1, Len(out)) = out
        /\ pc' # pc =>
                << pc, pc' >> \in {<< "plan", "fill" >>, << "plan", "perm" >>,
                                   << "fill", "perm" >>, << "perm", "fft" >>,
                                   << "fft", "done" >>, << "done", "ran" >>}
        /\ (pc = "plan" /\ pc' = "fill") <=> (pc = "plan" /\ pc' # pc /\ symmIn)
        /\ new # << >> =>
            \/ pc = "fill" /\ new = FillPairs(i, i)
            \/ pc = "perm" /\ pc' = "perm" /\ k < nSwap
                /\ \A q \in 1..Len(new) : StatementOn(new[q], swap[k].m, swap[k].mr)
            \/ pc = "perm" /\ pc' = "fft" /\ k = nSwap /\ new = << BlankLine >>
            \/ pc = "fft"
                /\ \A q \in 1..Len(new) : StatementOn(new[q], ii, ii + k)

\* C22: the output is the Hermitian fills, then the statements of all swap
\* records, then the butterfly statements.  With symm_in the fills are the
\* pairs  xr[i] = xr[n-i]; xi[i] = -xi[n-i];  of exactly the i in
\* n/2+1..n-1 that are m or mr of no record, and all come before the first
\* swap statement;  without symm_in there is no fill.
C22_FillsSwapsButterflies == []FillsThenSwaps /\ [][PhaseOrder]_vars

\* A finished text with fills, swaps and butterflies.
C22_Witness ==
    /\ pc = "done" /\ symmIn /\ n = 16
    /\ AllFills # << >> /\ nSwap > 0
    /\ BlankPos > Len(AllFills) + 1 /\ Len(out) > BlankPos

(***************************************************************************)
(* The last stage under symm_out                                           *)
(***************************************************************************)

\* The text and nzi when the stage loop is entered.
BeforeStages ==
    LET p     == Plan(n, symmIn)
        fills == IF symmIn
                 THEN FillsRange(n, p.swap, p.nSwap, n \div 2 + 1, n - 1)
                 ELSE << >>
    IN  [lines |-> fills \o SwapsRange(n, realIn, p.swap, 0, p.nSwap - 1)
                         \o << BlankLine >>,
         nzi |-> NziInit(n, realIn)]

\* The stages from k up to, not including, stage stop.
RECURSIVE StagesBelow(_, _, _, _)
StagesBelow(st, o, kk, stop) ==
    IF kk >= stop THEN st
    ELSE LET o1 == [o EXCEPT !.lastKCycle = StageFlag(o.n, kk, o.lastKCycle)]
         IN  The({StagesBelow(r, o1, 2 * kk, stop) :
                    r \in {GroupRange(st, o1, kk, 0, kk - 1)}})

\* The text of the stages before the last one, generated with the given
\* real_out and symm_out.
TextBeforeLastStage(ro, so) ==
    StagesBelow(BeforeStages,
                [n |-> n, inv |-> inv, realIn |-> realIn, realOut |-> ro,
                 symmOut |-> so, lastKCycle |-> 0], 1, n \div 2).lines

\* lines without the assignments to xr[j], xi[j] for j > n/2.
RECURSIVE DropUpperWrites(_)
DropUpperWrites(lines) ==
    IF lines = << >> THEN << >>
    ELSE LET l == Head(lines)
         IN  (IF l.lhs.a \in {"xr", "xi"} /\ l.lhs.i > n \div 2 THEN << >> ELSE << l >>)
             \o DropUpperWrites(Tail(lines))

\* C23: during the stages the flag lastKCycle is set exactly in the stage
\* with 2k = n.  With symm_out the text is the text generated without
\* symm_out, except that in the last stage the assignments to xr[jj] and
\* xi[jj] are missing for every jj other than n/2:  the stages before the
\* last and, in the last, tr, ti, the statements for ii and for jj = n/2
\* are the same.
C23_SymmOutLastStage ==
    /\ (pc = "fft" /\ k < n) => (lastKCycle = 1 <=> 2 * k = n)
    /\ (pc = "done" /\ symmOut) =>
        LET ref  == fftGen(n, inv, realIn, realOut, symmIn, FALSE)
            cut  == Len(TextBeforeLastStage(realOut, FALSE))
        IN  /\ Len(out) >= cut /\ Len(ref) >= cut
            /\ SubSeq(out, 1, cut) = SubSeq(ref, 1, cut)
            /\ SubSeq(out, cut + 1, Len(out))
                    = DropUpperWrites(SubSeq(ref, cut + 1, Len(ref)))

\* A text for n = 16 generated with symm_out only: its last stage assigns
\* xr[8] and xi[8] but not xr[9].
C23_Witness ==
    /\ pc = "done" /\ symmOut /\ ~realIn /\ ~realOut /\ ~symmIn /\ n = 16
    /\ lastKCycle = 1
    /\ LET cut == Len(TextBeforeLastStage(FALSE, FALSE))
       IN  /\ cut < Len(out)
           /\ \E q \in (cut + 1)..Len(out) : out[q].lhs = XR(8)
           /\ \E q \in (cut + 1)..Len(out) : out[q].lhs = XI(8)
           /\ \A q \in (cut + 1)..Len(out) : out[q].lhs # XR(9)
           /\ \E q \in 1..cut : out[q].lhs = XR(9)

(***************************************************************************)
(* The last stage under real_out                                           *)
(***************************************************************************)

\* The statements of lines that assign tr or an element of xr.
RECURSIVE RealStatements(_)
RealStatements(lines) ==
    IF lines = << >> THEN << >>
    ELSE LET l == Head(lines)
         IN  (IF l.lhs.a \in {"tr", "xr"} THEN << l >> ELSE << >>)
             \o RealStatements(Tail(lines))

\* C24: with real_out the last stage holds no  ti = ...  statement and no
\* assignment to an element of xi, and the statements that assign tr or an
\* element of xr are, in all stages and in the same order, those of the
\* text generated without real_out for the same n and other flags.
C24_RealOutLastStage ==
    (pc = "done" /\ realOut) =>
        LET ref == fftGen(n, inv, realIn, FALSE, symmIn, symmOut)
            cut == Len(TextBeforeLastStage(realOut, symmOut))
        IN  /\ Len(out) >= cut
            /\ \A q \in (cut + 1)..Len(out) : out[q].lhs.a \in {"tr", "xr"}
            /\ RealStatements(out) = RealStatements(ref)

\* A text for n = 8 generated with real_out only: stages before the last
\* assign ti and xi, the last has statements and none of them does, and
\* the text without real_out is longer.
C24_Witness ==
    /\ pc = "done" /\ realOut /\ ~realIn /\ ~symmIn /\ ~symmOut /\ n = 8
    /\ LET cut == Len(TextBeforeLastStage(TRUE, FALSE))
       IN  /\ cut < Len(out)
           /\ \E q \in 1..cut : out[q].lhs = TI
           /\ \E q \in 1..cut : out[q].lhs.a = "xi"
    /\ Len(out) < Len(fftGen(n, inv, realIn, FALSE, symmIn, symmOut))

(***************************************************************************)
(* The real part of a butterfly                                            *)
(***************************************************************************)

\* Positions in lines of the assignments to v.
AssignmentsIn(lines, v) == {q \in 1..Len(lines) : lines[q].lhs = v}

\* tr_zero for the butterfly about to be printed:  wr is classified as
\* zero and wi is classified as zero or xi[jj] is tracked as zero.
TrZeroNow ==
    /\ ~TwNonZero(n, TwWr(n, k, m))
    /\ ~TwNonZero(n, TwWi(n, k, m, inv)) \/ nzi[ii + k] = 0

\* One butterfly:  tr = ...  is printed iff not tr_zero;  unless symm_out
\* suppresses it, xr[jj] is assigned once, by  xr[jj] = xr[ii];  under
\* tr_zero and by  xr[jj] = xr[ii] - tr;  otherwise;  xr[ii] += tr;  is
\* printed once when not tr_zero and xr[ii] is not assigned under tr_zero.
RealPartAsClaimed ==
    (pc = "fft" /\ k < n) =>
        LET new == SubSeq(out', Len(out) + 1, Len(out'))
            jj  == ii + k
            suppressed == symmOut /\ lastKCycle = 1 /\ jj # n \div 2
            onJJ == AssignmentsIn(new, XR(jj))
            onII == AssignmentsIn(new, XR(ii))
        IN  /\ (AssignmentsIn(new, TR) # {}) <=> ~TrZeroNow
            /\ Cardinality(AssignmentsIn(new, TR)) <= 1
            /\ suppressed => onJJ = {}
            /\ ~suppressed =>
                /\ Cardinality(onJJ) = 1
                /\ \A q \in onJJ :
                    new[q] = Line(XR(jj), "=",
                                  IF TrZeroNow
                                  THEN << Term("", NoLit, XR(ii)) >>
                                  ELSE << Term("", NoLit, XR(ii)),
                                          Term("-", NoLit, TR) >>)
            /\ TrZeroNow => onII = {}
            /\ ~TrZeroNow =>
                /\ Cardinality(onII) = 1
                /\ \A q \in onII :
                    new[q] = Line(XR(ii), "+=", << Term("", NoLit, TR) >>)

\* C25: for every butterfly  tr = ...  is emitted iff not tr_zero, where
\* tr_zero holds iff wr classifies as zero and (wi classifies as zero or
\* nzi[jj] = 0);  under tr_zero the write of xr[jj], unless suppressed by
\* symm_out, is  xr[jj] = xr[ii];  and no  xr[ii] += tr;  is emitted,
\* otherwise  xr[jj] = xr[ii] - tr;  and  xr[ii] += tr;  are emitted.
C25_TrZeroForms == [][RealPartAsClaimed]_vars

\* A butterfly with tr_zero has been printed:  xr[3] = xr[1];  in the last
\* stage of n = 4 with real_in, next to butterflies that use tr.
C25_Witness ==
    /\ n = 4 /\ realIn /\ ~symmOut /\ pc = "done"
    /\ \E q \in 1..Len(out) : out[q] = Line(XR(3), "=", << Term("", NoLit, XR(1)) >>)
    /\ \E q \in 1..Len(out) : out[q] = Line(XR(2), "=", << Term("", NoLit, XR(0)),
                                                            Term("-", NoLit, TR) >>)

(***************************************************************************)
(* The clearing of imaginary parts                                         *)
(***************************************************************************)

\* One step: a slot for which  xi[j] = 0.0;  is printed is tracked as zero
\* before the step and after it.
ClearsOnlyZeroSlots ==
    LET new == SubSeq(out', Len(out) + 1, Len(out'))
    IN  \A q \in 1..Len(new) : \A j \in DOMAIN nzi :
            StoresZero(new[q], j) => nzi[j] = 0 /\ nzi'[j] = 0

\* C26: whenever  xi[i] = 0.0;  is emitted, for i = jj or i = ii, nzi[i] is
\* 0 at that point:  no slot tracked as possibly non-zero is overwritten
\* with 0.0.
C26_ZeroOnlyOnZeroSlot == [][ClearsOnlyZeroSlots]_vars

\* The text for n = 8 with real_in is complete;  it clears xi[0] (as ii)
\* and xi[4] (as jj), both still tracked as zero, and other slots are
\* tracked as non-zero.
C26_Witness ==
    /\ n = 8 /\ realIn /\ ~realOut /\ pc = "done"
    /\ \E q \in 1..Len(out) : StoresZero(out[q], 0)
    /\ \E q \in 1..Len(out) : StoresZero(out[q], 4)
    /\ nzi[0] = 0 /\ nzi[4] = 0 /\ nzi[1] = 1 /\ nzi[5] = 1

(***************************************************************************)
(* Position 0 of the record list                                           *)
(***************************************************************************)

\* With symm_in and n >= 4, once the list is not empty its first record is
\* (1, n/2), and no record with symmIn set has 1 or n/2 as a substituted
\* source, so none reads what the first record writes.
FirstRecordApart ==
    (symmIn /\ n >= 4 /\ nSwap >= 1) =>
        /\ swap[0].m = 1 /\ swap[0].mr = n \div 2
        /\ \A p \in 0..(nSwap - 1) :
            swap[p].symmIn = 1 =>
                /\ swap[p].m > n \div 2 => swap[p].m_new \notin {1, n \div 2}
                /\ swap[p].mr > n \div 2 => swap[p].mr_new \notin {1, n \div 2}
                /\ RecReads(swap[p]) \cap RecWrites(swap[0]) = {}

\* One step: the first record stays where it is.
FirstRecordStays == (symmIn /\ nSwap >= 1) => swap'[0] = swap[0]

\* C27: with symm_in and n >= 4 the record at position 0 is (1, n/2) and
\* never moves, and no record with symmIn set has a substituted source
\* equal to 1 or n/2;  so that the backward scan stops before position 0
\* never leaves a record behind one that overwrites its source.
C27_PositionZeroNeverNeeded == []FirstRecordApart /\ [][FirstRecordStays]_vars

\* With symm_in and n = 16 the final list has (1, 8) in front, records
\* with substituted sources, and one that was inserted before an older one.
C27_Witness ==
    /\ symmIn /\ n = 16 /\ pc = "perm"
    /\ swap[0].m = 1 /\ swap[0].mr = 8
    /\ \E p \in 1..(nSwap - 1) : swap[p].symmIn = 1 /\ swap[p].m > 8
    /\ \E p \in 1..(nSwap - 2) : swap[p].m > swap[p + 1].m

(***************************************************************************)
(* The order of the statements of a butterfly                              *)
(***************************************************************************)

\* Place of a statement of the butterfly (a, b) in the order
\* tr, ti, xr[jj], xi[jj], xr[ii], xi[ii];  0 for any other line.
PlaceIn(l, a, b) ==
    IF l.lhs = TR THEN 1
    ELSE IF l.lhs = TI THEN 2
    ELSE IF l.lhs = XR(b) THEN 3
    ELSE IF l.lhs = XI(b) THEN 4
    ELSE IF l.lhs = XR(a) THEN 5
    ELSE IF l.lhs = XI(a) THEN 6
    ELSE 0

\* Line l reads v.
Reads(l, v) == \E t \in 1..Len(l.rhs) : l.rhs[t].v = v

\* One butterfly: its statements are in the order tr, ti, xr[jj], xi[jj],
\* xr[ii], xi[ii], each at most once, and a statement that reads tr or ti
\* comes after the assignment of that temporary in the same butterfly.
ButterflyInOrder ==
    (pc = "fft" /\ k < n) =>
        LET new == SubSeq(out', Len(out) + 1, Len(out'))
        IN  /\ \A q \in 1..Len(new) : PlaceIn(new[q], ii, ii + k) > 0
            /\ \A p, q \in 1..Len(new) :
                    p < q => PlaceIn(new[p], ii, ii + k) < PlaceIn(new[q], ii, ii + k)
            /\ \A q \in 1..Len(new) : \A v \in {TR, TI} :
                    Reads(new[q], v) => \E p \in 1..(q - 1) : new[p].lhs = v

\* C28: within every butterfly the statements appear in the order tr, ti,
\* xr[jj], xi[jj], xr[ii], xi[ii];  every statement that reads tr is
\* preceded in the same butterfly by a  tr = ...  statement and every
\* statement that reads ti by a  ti = ...  statement, for every flag
\* combination.
C28_NoStaleTemporary == [][ButterflyInOrder]_vars

\* A butterfly with all six statements has just been printed.
C28_Witness ==
    /\ pc = "fft" /\ Len(out) >= 6
    /\ LET q == Len(out) - 5
       IN  /\ out[q].lhs = TR /\ out[q + 1].lhs = TI
           /\ out[q + 2].lhs.a = "xr" /\ Reads(out[q + 2], TR)
           /\ out[q + 3].lhs.a = "xi" /\ Reads(out[q + 3], TI)
           /\ out[q + 4].op = "+=" /\ Reads(out[q + 4], TR)
           /\ out[q + 5].op = "+=" /\ Reads(out[q + 5], TI)

(***************************************************************************)
(* The Gold-Rader recurrence                                               *)
(***************************************************************************)

\* One iteration of the planner loop, for m in 1..n-1:  the halving loop
\* stops with k >= 1, and the new mr is the bit reversal of m and lies in
\* 0..n-1.
RecurrenceStep ==
    (pc = "plan" /\ m <= n - 1) =>
        /\ n >= 2 /\ m >= 1
        /\ HalveK(n, mr, n - 1) >= 1
        /\ mr' = BitRev(n, m)
        /\ 0 <= mr' /\ mr' <= n - 1

\* C29: for every power of two n >= 2 and every m in 1..n-1 the halving
\* loop stops with k >= 1, so that  mr % k  does not divide by zero, and
\* after the update mr is the bit reversal of m over log2 n bits, with
\* 0 <= mr <= n-1.
C29_RecurrenceIsBitReversal == [][RecurrenceStep]_vars

\* The iteration m = 32 of n = 64 has been made:  from mr = 62 the loop
\* halved k down to 1 and mr became 1.
C29_Witness ==
    /\ n = 64 /\ pc = "plan" /\ m = 33 /\ mr = 1
    /\ BitRev(n, 31) = 62 /\ HalveK(n, 62, n - 1) = 1

(***************************************************************************)
(* Index ranges                                                            *)
(***************************************************************************)

\* The array elements named in line l.
ElementsOf(l) ==
    (IF l.lhs.a \in {"xr", "xi"} THEN {l.lhs.i} ELSE {})
    \cup {l.rhs[t].v.i : t \in {u \in 1..Len(l.rhs) : l.rhs[u].v.a \in {"xr", "xi"}}}

\* The values of ii of stage kk from loop position pos on.
RECURSIVE VisitsFrom(_, _)
VisitsFrom(kk, pos) ==
    IF pos.k # kk THEN << >>
    ELSE << pos.ii >> \o VisitsFrom(kk, NextPos(n, pos.k, pos.m, pos.i, pos.ii))

\* nzi and swap have n entries;  at most n/2 records are in use;  every
\* element named in the output has an index in 0..n-1;  the butterfly about
\* to be printed has ii and jj = ii+k in 0..n-1;  and the stage it belongs
\* to visits n/2 butterflies whose ii and jj are each index 0..n-1 once,
\* the present one at its place among them.
IndicesInRange ==
    /\ DOMAIN swap = 0..(n - 1) /\ DOMAIN nzi = 0..(n - 1)
    /\ 0 <= nSwap /\ nSwap <= n \div 2
    /\ \A q \in 1..Len(out) : ElementsOf(out[q]) \subseteq 0..(n - 1)
    /\ (pc = "fft" /\ k < n) =>
        /\ 0 <= ii /\ ii + k <= n - 1
        /\ LET seq == VisitsFrom(k, [k |-> k, m |-> 0, i |-> 0, ii |-> 0])
               at  == m * (n \div (2 * k)) + (i - m) + 1
           IN  /\ Len(seq) = n \div 2
               /\ at \in 1..Len(seq) /\ seq[at] = ii
               /\ {seq[q] : q \in 1..Len(seq)} \cup {seq[q] + k : q \in 1..Len(seq)}
                    = 0..(n - 1)

\* One step: a planner step that adds a record writes at swap[nSwap] and
\* scans and shifts below it, inside the array;  the swap and fill loops
\* read records below nSwap.
SwapAccessInside ==
    /\ (pc = "plan" /\ nSwap' = nSwap + 1) =>
            /\ nSwap \in DOMAIN swap
            /\ \A p \in 0..nSwap : swap'[p].mr > swap'[p].m
    /\ (pc = "perm" /\ k < nSwap) => k \in DOMAIN swap

\* C30: for every power of two n >= 1 and every flag combination, every
\* array index in an emitted statement and every index used to access nzi
\* lies in 0..n-1, nSwap never exceeds n/2, every access to swap stays
\* inside its n entries, and in each stage every index 0..n-1 occurs in
\* exactly one butterfly, as ii or as jj = ii+k.
C30_IndicesInRange == []IndicesInRange /\ [][SwapAccessInside]_vars

\* The last butterfly of the last stage of n = 16 is about to be printed,
\* on ii = 7 and jj = 15, with six records in the list.
C30_Witness ==
    /\ n = 16 /\ pc = "fft" /\ k = 8 /\ ii = 7 /\ nSwap = 6
    /\ \E q \in 1..Len(out) : 15 \in ElementsOf(out[q])

====
